---- MODULE Spec2Model ----
(***************************************************************************)
(* zfs-discord-alerts (src/main.py): the poll loop, the classifier of      *)
(* `zpool status -j` output, the change notifier with its bounded-retry    *)
(* delivery, the snapshot store old_data, and the web server's do_GET.     *)
(*                                                                         *)
(* Spec is main() with its poll loop; SpecWeb is the same with requests    *)
(* of the web server interleaved; SpecRender is check_status called with   *)
(* a snapshot of any counters; SpecLoad is the process from the loading    *)
(* of the module on, for the values of the environment variable POOLS.     *)
(*                                                                         *)
(* A Python dict whose keys are data (pool names, vdev names, drive names) *)
(* is a sequence of entries [k |-> key, v |-> value] in insertion order;   *)
(* a dict whose keys are fixed words (total, online, state, ...) is a      *)
(* record, an optional key being a field that is present or not.           *)
(***************************************************************************)
EXTENDS Integers, Sequences, FiniteSets, TLC

(* ------------------------------------------------------------------ *)
(* Bounds of the exploration                                          *)
(* ------------------------------------------------------------------ *)

\* DISCORD_MAX_RETRIES ranges over 0..MaxRetries
MaxRetries == 3

\* the status command reports at most this many pools
MaxPools == 3

\* a counter handed to check_status directly counts at most this many devices
MaxCount == 5

\* a redundancy group of the documents explored for the classifier alone
\* lists at most this many devices
MaxDrives == 2

(* ------------------------------------------------------------------ *)
(* Python dicts keyed by data                                         *)
(* ------------------------------------------------------------------ *)

Entry(key, value) == [k |-> key, v |-> value]

Keys(d) == {d[i].k : i \in DOMAIN d}

\* key in d
Has(d, key) == key \in Keys(d)

\* d[key]
Get(d, key) == d[CHOOSE i \in DOMAIN d : d[i].k = key].v

\* d[key] = value: a new key is appended, an existing key keeps its place
Put(d, key, value) ==
    IF Has(d, key)
    THEN [i \in DOMAIN d |-> IF d[i].k = key THEN Entry(key, value) ELSE d[i]]
    ELSE Append(d, Entry(key, value))

(* ------------------------------------------------------------------ *)
(* check(): the classifier                                            *)
(* ------------------------------------------------------------------ *)

\* create_count(data): sets the three counters of data to 0
create_count(data) ==
    [total |-> 0, online |-> 0, degraded |-> 0] @@ data

count_by_state_inuse_online(data, obj) ==
    [data EXCEPT
        !.total = @ + 1,
        !.online = IF obj.state \in {"ONLINE", "AVAIL", "INUSE"} THEN @ + 1 ELSE @,
        !.degraded = IF obj.state = "DEGRADED" THEN @ + 1 ELSE @]

\* count_by_state(data, obj)
count_by_state(data, obj) ==
    [data EXCEPT
        !.total = @ + 1,
        !.online = IF obj.state = "ONLINE" \/ obj.state = "AVAIL"
                   THEN @ + 1 ELSE @,
        !.degraded = IF obj.state = "ONLINE" \/ obj.state = "AVAIL"
                     THEN @
                     ELSE IF obj.state = "DEGRADED" \/ obj.state = "INUSE"
                          THEN @ + 1 ELSE @]

RECURSIVE rpl_loop_plain_names(_, _, _)
rpl_loop_plain_names(pool_data, rpl, i) ==
    IF i > Len(rpl) THEN pool_data
    ELSE rpl_loop_plain_names(
             IF rpl[i].v.state = "DEGRADED"
             THEN [pool_data EXCEPT !.degraded_drives = Append(@, rpl[i].k)]
             ELSE IF rpl[i].v.state # "ONLINE"
             THEN [pool_data EXCEPT !.offline_drives = Append(@, rpl[i].k)]
             ELSE pool_data,
             rpl, i + 1)

\* the loop over a replacing wrapper's children (lines 260-264)
RECURSIVE rpl_loop(_, _, _)
rpl_loop(pool_data, rpl, i) ==
    IF i > Len(rpl) THEN pool_data
    ELSE LET rpl_name == rpl[i].k
             rpl_drive == rpl[i].v
             next == IF rpl_drive.state = "DEGRADED"
                     THEN [pool_data EXCEPT !.degraded_drives =
                              Append(@, rpl_name \o " (replacing)")]
                     ELSE IF rpl_drive.state # "ONLINE"
                     THEN [pool_data EXCEPT !.offline_drives =
                              Append(@, rpl_name \o " (replacing)")]
                     ELSE pool_data
         IN rpl_loop(next, rpl, i + 1)

\* the loop over a spare wrapper's children (lines 258-269)
RECURSIVE sub_loop(_, _, _)
sub_loop(pool_data, subs, i) ==
    IF i > Len(subs) THEN pool_data
    ELSE LET sub_name == subs[i].k
             sub_drive == subs[i].v
             next == IF sub_drive.vdev_type = "replacing"
                     THEN rpl_loop(pool_data, sub_drive.vdevs, 1)
                     ELSE IF sub_drive.class # "spare"
                     THEN IF sub_drive.state = "DEGRADED"
                          THEN [pool_data EXCEPT !.degraded_drives =
                                   Append(@, sub_name)]
                          ELSE IF sub_drive.state # "ONLINE"
                          THEN [pool_data EXCEPT !.offline_drives =
                                   Append(@, sub_name)]
                          ELSE pool_data
                     ELSE pool_data
         IN sub_loop(next, subs, i + 1)

\* what one drive of a redundancy group adds to the pool's lists (lines 255-273)
list_drive(pool_data, drive_name, drive) ==
    IF drive.state = "ONLINE" THEN pool_data
    ELSE IF drive.vdev_type = "spare"
    THEN sub_loop(pool_data, drive.vdevs, 1)
    ELSE IF drive.state = "DEGRADED"
    THEN [pool_data EXCEPT !.degraded_drives = Append(@, drive_name)]
    ELSE [pool_data EXCEPT !.offline_drives = Append(@, drive_name)]

RECURSIVE drive_loop_pool_twice(_, _, _)
drive_loop_pool_twice(acc, drives, i) ==
    IF i > Len(drives) THEN acc
    ELSE drive_loop_pool_twice(
             [pool_data |-> list_drive(
                                count_by_state(count_by_state(acc.pool_data, drives[i].v),
                                               drives[i].v),
                                drives[i].k, drives[i].v),
              vdev_data |-> count_by_state(acc.vdev_data, drives[i].v)],
             drives, i + 1)

RECURSIVE drive_loop_group_only(_, _, _)
drive_loop_group_only(acc, drives, i) ==
    IF i > Len(drives) THEN acc
    ELSE drive_loop_group_only(
             [pool_data |-> list_drive(acc.pool_data, drives[i].k, drives[i].v),
              vdev_data |-> count_by_state(acc.vdev_data, drives[i].v)],
             drives, i + 1)

\* the loop over a redundancy group's drives (lines 251-273); acc holds the
\* pool node and the group node, which the code updates side by side
RECURSIVE drive_loop(_, _, _)
drive_loop(acc, drives, i) ==
    IF i > Len(drives) THEN acc
    ELSE LET drive_name == drives[i].k
             drive == drives[i].v
         IN drive_loop(
                [pool_data |-> list_drive(count_by_state(acc.pool_data, drive),
                                          drive_name, drive),
                 vdev_data |-> count_by_state(acc.vdev_data, drive)],
                drives, i + 1)

\* the loop over a pool's redundancy groups (lines 247-273)
RECURSIVE vdev_loop(_, _, _)
vdev_loop(pool_data, vdevs, i) ==
    IF i > Len(vdevs) THEN pool_data
    ELSE LET vdev_name == vdevs[i].k
             vdev == vdevs[i].v
             acc == drive_loop([pool_data |-> pool_data,
                                vdev_data |-> create_count(<<>>)],
                               vdev.vdevs, 1)
         IN vdev_loop(
                [acc.pool_data EXCEPT !.vdevs = Put(@, vdev_name, acc.vdev_data)],
                vdevs, i + 1)

RECURSIVE logs_loop_by_entry(_, _, _)
logs_loop_by_entry(vdev_data, logs, i) ==
    IF i > Len(logs) THEN vdev_data
    ELSE logs_loop_by_entry(count_by_state(vdev_data, logs[i].v), logs, i + 1)

\* the loop over the entries of a pool's logs (lines 278-283)
RECURSIVE logs_loop(_, _, _)
logs_loop(vdev_data, logs, i) ==
    IF i > Len(logs) THEN vdev_data
    ELSE LET drive == logs[i].v
             RECURSIVE subs(_, _)
             subs(vd, j) == IF j > Len(drive.vdevs) THEN vd
                            ELSE subs(count_by_state(vd, drive.vdevs[j].v), j + 1)
         IN logs_loop(IF drive.vdev_type # "disk"
                      THEN subs(vdev_data, 1)
                      ELSE count_by_state(vdev_data, drive),
                      logs, i + 1)

\* the loop over the entries of a pool's l2cache or spares (lines 288-289, 294-295)
RECURSIVE aux_loop(_, _, _)
aux_loop(vdev_data, drives, i) ==
    IF i > Len(drives) THEN vdev_data
    ELSE aux_loop(count_by_state(vdev_data, drives[i].v), drives, i + 1)

\* the pool node check() builds for one pool of the status (lines 235-295)
pool_node(pool_name, pool, show_space) ==
    LET top == Get(pool.vdevs, pool_name)
        fresh == [degraded_drives |-> <<>>, offline_drives |-> <<>>, vdevs |-> <<>>]
        spaced == IF show_space /\ "alloc_space" \in DOMAIN top
                  THEN fresh @@ [alloc_space |-> top.alloc_space,
                                 total_space |-> top.total_space]
                  ELSE fresh
        grouped == vdev_loop(create_count(spaced), top.vdevs, 1)
        logged == IF "logs" \in DOMAIN pool
                  THEN [grouped EXCEPT !.vdevs =
                           Put(@, "logs", logs_loop(create_count(<<>>), pool.logs, 1))]
                  ELSE grouped
        cached == IF "l2cache" \in DOMAIN pool
                  THEN [logged EXCEPT !.vdevs =
                           Put(@, "cache", aux_loop(create_count(<<>>), pool.l2cache, 1))]
                  ELSE logged
    IN IF "spares" \in DOMAIN pool
       THEN [cached EXCEPT !.vdevs =
                Put(@, "spares", aux_loop(create_count(<<>>), pool.spares, 1))]
       ELSE cached

RECURSIVE pool_loop_by_devices(_, _, _, _)
pool_loop_by_devices(data, pools, i, show_space) ==
    IF i > Len(pools) THEN data
    ELSE LET node == pool_node(pools[i].k, pools[i].v, show_space)
             counted == count_by_state(data,
                            [state |-> IF node.online = node.total THEN "ONLINE"
                                       ELSE "DEGRADED"])
         IN pool_loop_by_devices([counted EXCEPT !.vdevs = Put(@, pools[i].k, node)],
                                 pools, i + 1, show_space)

\* the loop over the pools of the status (lines 232-295)
RECURSIVE pool_loop(_, _, _, _)
pool_loop(data, pools, i, show_space) ==
    IF i > Len(pools) THEN data
    ELSE LET pool_name == pools[i].k
             pool == pools[i].v
             counted == count_by_state(data, pool)
         IN pool_loop(
                [counted EXCEPT !.vdevs =
                    Put(@, pool_name, pool_node(pool_name, pool, show_space))],
                pools, i + 1, show_space)

\* the snapshot check() hands to check_status (lines 225-297)
classify(status, show_space) ==
    pool_loop(create_count(<<>>) @@ [vdevs |-> <<>>], status.pools, 1, show_space)

(* ------------------------------------------------------------------ *)
(* Python's == on snapshots: dicts compare by keys and values, never  *)
(* by insertion order; lists compare in order                         *)
(* ------------------------------------------------------------------ *)

\* group, logs, cache and spares nodes hold counters only
leaf_eq(a, b) == a = b

\* the vdevs dict of a pool node
groups_eq(a, b) ==
    /\ Keys(a) = Keys(b)
    /\ \A key \in Keys(a) : leaf_eq(Get(a, key), Get(b, key))

\* old_data['vdevs'][vdev_name] == vdev (line 166)
pool_eq(a, b) ==
    /\ DOMAIN a = DOMAIN b
    /\ \A f \in DOMAIN a \ {"vdevs"} : a[f] = b[f]
    /\ "vdevs" \in DOMAIN a => groups_eq(a.vdevs, b.vdevs)

\* the vdevs dict of a snapshot
pools_eq(a, b) ==
    /\ Keys(a) = Keys(b)
    /\ \A key \in Keys(a) : pool_eq(Get(a, key), Get(b, key))

\* old_data == data (line 157)
snapshot_eq(a, b) ==
    /\ DOMAIN a = DOMAIN b
    /\ \A f \in DOMAIN a \ {"vdevs"} : a[f] = b[f]
    /\ "vdevs" \in DOMAIN a => pools_eq(a.vdevs, b.vdevs)

(* ------------------------------------------------------------------ *)
(* get_embed                                                          *)
(* ------------------------------------------------------------------ *)

\* the glyphs of the source are written by name: \[stop], \[check], \[warn]
\* title (line 106)
title(data) ==
    IF data.total # 0 /\ data.online + data.degraded = 0 THEN "\\[stop] OFFLINE"
    ELSE IF data.online = data.total THEN "\\[check] ONLINE"
    ELSE "\\[warn] DEGRADED"

color_by_online_only(data) ==
    IF data.total # 0 /\ data.online = 0 THEN 16711680
    ELSE IF data.online = data.total THEN 65280
    ELSE 16753920

\* color: 0xFF0000, 0x00FF00, 0xFFA500 (line 107)
color(data) ==
    IF data.total # 0 /\ data.online + data.degraded = 0 THEN 16711680
    ELSE IF data.online = data.total THEN 65280
    ELSE 16753920

\* vdev_icon (line 115)
vdev_icon(vdev) ==
    IF vdev.total # 0 /\ vdev.online + vdev.degraded = 0 THEN "\\[stop]"
    ELSE IF vdev.online = vdev.total THEN "\\[check]"
    ELSE "\\[warn]"

\* the word check_status logs after 'Status: ' (line 160)
logged_status(data) ==
    IF data.total # 0 /\ data.online + data.degraded = 0 THEN "OFFLINE"
    ELSE IF data.online = data.total THEN "ONLINE"
    ELSE "DEGRADED"

\* description before EXTRA is appended (lines 108, 111-112)
description(data) ==
    ToString(data.online) \o " / " \o ToString(data.total) \o " online"
    \o (IF data.online + data.degraded = data.total THEN ""
        ELSE " (" \o ToString(data.online - data.degraded) \o " unavailable)")
    \o (IF "alloc_space" \in DOMAIN data /\ "total_space" \in DOMAIN data
        THEN ", " \o data.alloc_space \o " / " \o data.total_space \o " used"
        ELSE "")

\* the value of a child's field (lines 118, 121-122)
vdev_value(vdev) ==
    ToString(vdev.online) \o " / " \o ToString(vdev.total) \o " online"
    \o (IF vdev.online + vdev.degraded = vdev.total THEN ""
        ELSE " (" \o ToString(vdev.online - vdev.degraded) \o " unavailable)")
    \o (IF "alloc_space" \in DOMAIN vdev /\ "total_space" \in DOMAIN vdev
        THEN ", " \o vdev.alloc_space \o " / " \o vdev.total_space \o " used"
        ELSE "")

\* "\n".join(names) (lines 127, 134); the fence around it is written '''
RECURSIVE join(_)
join(names) ==
    IF names = <<>> THEN ""
    ELSE IF Len(names) = 1 THEN names[1]
    ELSE names[1] \o "\n" \o join(Tail(names))

embed_fields_offline_first(data, now) ==
    [i \in DOMAIN data.vdevs |->
        [name |-> vdev_icon(data.vdevs[i].v) \o " " \o data.vdevs[i].k,
         value |-> vdev_value(data.vdevs[i].v),
         inline |-> TRUE]]
    \o (IF "offline_drives" \in DOMAIN data /\ data.offline_drives # <<>>
        THEN <<[name |-> "\\[stop] Offline",
                value |-> "'''" \o join(data.offline_drives) \o "'''",
                inline |-> FALSE]>>
        ELSE <<>>)
    \o (IF "degraded_drives" \in DOMAIN data /\ data.degraded_drives # <<>>
        THEN <<[name |-> "\\[warn] Degraded",
                value |-> "'''" \o join(data.degraded_drives) \o "'''",
                inline |-> FALSE]>>
        ELSE <<>>)
    \o <<[name |-> "Timestamp",
          value |-> "<t:" \o ToString(now) \o ":F>",
          inline |-> FALSE]>>

\* the fields of lines 114-142
embed_fields(data, now) ==
    [i \in DOMAIN data.vdevs |->
        [name |-> vdev_icon(data.vdevs[i].v) \o " " \o data.vdevs[i].k,
         value |-> vdev_value(data.vdevs[i].v),
         inline |-> TRUE]]
    \o (IF "degraded_drives" \in DOMAIN data /\ data.degraded_drives # <<>>
        THEN <<[name |-> "\\[warn] Degraded",
                value |-> "'''" \o join(data.degraded_drives) \o "'''",
                inline |-> FALSE]>>
        ELSE <<>>)
    \o (IF "offline_drives" \in DOMAIN data /\ data.offline_drives # <<>>
        THEN <<[name |-> "\\[stop] Offline",
                value |-> "'''" \o join(data.offline_drives) \o "'''",
                inline |-> FALSE]>>
        ELSE <<>>)
    \o <<[name |-> "Timestamp",
          value |-> "<t:" \o ToString(now) \o ":F>",
          inline |-> FALSE]>>

\* get_embed(prefix, data), with the configured EXTRA and the clock's reading
get_embed(prefix, data, extra, now) ==
    [title |-> (IF prefix # "" THEN prefix \o ": " ELSE "")
               \o title(data),
     description |-> description(data) \o (IF extra # "" THEN "\n" \o extra ELSE ""),
     color |-> color(data),
     fields |-> embed_fields(data, now)]

(* ------------------------------------------------------------------ *)
(* What the status command can print                                  *)
(* ------------------------------------------------------------------ *)

Disk(state) == [state |-> state, vdev_type |-> "disk", class |-> "normal"]

Wrapper(type, state, children) ==
    [state |-> state, vdev_type |-> type, class |-> "normal", vdevs |-> children]

\* a pool of `zpool status -j`: its own state, and under vdevs its root vdev,
\* keyed by the pool's name, which holds the redundancy groups
Pool(name, state, groups) ==
    [state |-> state,
     vdevs |-> <<Entry(name, Wrapper("root", state, groups))>>]

PoolNames == <<"tank", "backup", "scratch", "vault", "archive">>

Shapes == {"healthy", "faulted"}

\* a pool of each shape: all devices online; one device faulted; all devices
\* online under a pool that reports SUSPENDED (its I/O is suspended)
ShapedPool(name, shape) ==
    CASE shape = "healthy" ->
           Pool(name, "ONLINE",
                <<Entry("mirror-0", Wrapper("mirror", "ONLINE",
                    <<Entry("sda", Disk("ONLINE")), Entry("sdb", Disk("ONLINE"))>>))>>)
      [] shape = "faulted" ->
           Pool(name, "DEGRADED",
                <<Entry("mirror-0", Wrapper("mirror", "DEGRADED",
                    <<Entry("sda", Disk("ONLINE")), Entry("sdb", Disk("FAULTED"))>>))>>)
      [] shape = "suspended" ->
           Pool(name, "SUSPENDED",
                <<Entry("mirror-0", Wrapper("mirror", "ONLINE",
                    <<Entry("sda", Disk("ONLINE")), Entry("sdb", Disk("ONLINE"))>>))>>)

RECURSIVE ChosenPools(_, _)
ChosenPools(choice, i) ==
    IF i > MaxPools THEN <<>>
    ELSE (IF choice[i] = "absent" THEN <<>>
          ELSE <<Entry(PoolNames[i], ShapedPool(PoolNames[i], choice[i]))>>)
         \o ChosenPools(choice, i + 1)

\* a pool with a spare in use over a replacing pair, a mirrored log, a cache
\* device, a spare and its space figures
FixturePool(name) ==
    Pool(name, "DEGRADED",
         <<Entry("raidz1-0", Wrapper("raidz", "DEGRADED",
             <<Entry("sda", Disk("ONLINE")),
               Entry("sdb", Disk("DEGRADED")),
               Entry("sdc", Disk("UNAVAIL")),
               Entry("spare-3", Wrapper("spare", "DEGRADED",
                   <<Entry("replacing-0", Wrapper("replacing", "DEGRADED",
                        <<Entry("sdd", Disk("DEGRADED")),
                          Entry("sde", Disk("ONLINE"))>>)),
                     Entry("sdf", [Disk("ONLINE") EXCEPT !.class = "spare"])>>))>>))>>)
    @@ [logs |-> <<Entry("mirror-1", Wrapper("mirror", "ONLINE",
                     <<Entry("sdg", Disk("ONLINE")), Entry("sdh", Disk("ONLINE"))>>))>>,
        l2cache |-> <<Entry("sdi", Disk("ONLINE"))>>,
        spares |-> <<Entry("sdf", Disk("INUSE"))>>]

\* the pool with more fields on its root vdev
WithFields(pool, name, fields) ==
    [pool EXCEPT !.vdevs = <<Entry(name, pool.vdevs[1].v @@ fields)>>]

WithSpace(pool, name, alloc, total) ==
    WithFields(pool, name, [alloc_space |-> alloc, total_space |-> total])

Reverse(pools) == [i \in DOMAIN pools |-> pools[Len(pools) + 1 - i]]

\* the documents json.loads can return in this exploration: every choice of
\* shape or absence for the first MaxPools pool names, those with the first two
\* pools healthy also listed in the other order, a suspended pool alone and
\* beside a healthy one, the fixture pool with both space figures, and a pool
\* whose root vdev has one space figure without the other
StatusInputs ==
    {[pools |-> ChosenPools(choice, 1)] :
        choice \in [1..MaxPools -> Shapes \cup {"absent"}]}
    \cup {[pools |-> Reverse(ChosenPools(choice, 1))] :
            choice \in {c \in [1..MaxPools -> {"healthy", "absent"}] :
                            c[1] = "healthy" /\ c[2] = "healthy"}}
    \cup {[pools |-> <<Entry("tank", ShapedPool("tank", "suspended"))>>],
          [pools |-> <<Entry("tank", ShapedPool("tank", "suspended")),
                       Entry("backup", ShapedPool("backup", "healthy"))>>]}
    \cup {[pools |-> <<Entry("tank",
             WithSpace(FixturePool("tank"), "tank", "1.5T", "4T"))>>]}
    \cup {[pools |-> <<Entry("tank", WithFields(ShapedPool("tank", "healthy"), "tank",
                                              [alloc_space |-> "1.5T"]))>>],
          [pools |-> <<Entry("tank", WithFields(ShapedPool("tank", "faulted"), "tank",
                                              [total_space |-> "4T"]))>>]}

\* the states of a disk that a redundancy group lists
DiskStates == {"ONLINE", "AVAIL", "DEGRADED", "INUSE", "FAULTED", "OFFLINE"}

\* a disk of class spare
SpareDisk(state) == [Disk(state) EXCEPT !.class = "spare"]

\* a spare wrapper, a hot spare standing in beside what it stands in for
Spare(name, state, first) ==
    Wrapper("spare", state, <<first, Entry(name \o "-s", SpareDisk("ONLINE"))>>)

\* a replacing wrapper over the device replaced and its replacement
Replacing(name, old_state) ==
    Wrapper("replacing", IF old_state = "ONLINE" THEN "ONLINE" ELSE "DEGRADED",
            <<Entry(name \o "-old", Disk(old_state)),
              Entry(name \o "-new", Disk("ONLINE"))>>)

\* the kinds of device a redundancy group lists: a disk in one of its states;
\* a spare wrapper over a faulted or degraded disk, over a replacing wrapper
\* whose old device is degraded, unavailable or online, over online devices,
\* or over an online disk with the spare itself faulted; a replacing wrapper
MemberKinds ==
    DiskStates
    \cup {"spare-faulted", "spare-degraded", "spare-replacing-degraded",
          "spare-replacing-unavail", "spare-replacing-online", "spare-healthy",
          "spare-lost", "replacing"}

Member(kind, name) ==
    CASE kind \in DiskStates -> Disk(kind)
      [] kind = "spare-faulted" ->
            Spare(name, "DEGRADED", Entry(name \o "-d", Disk("FAULTED")))
      [] kind = "spare-degraded" ->
            Spare(name, "DEGRADED", Entry(name \o "-d", Disk("DEGRADED")))
      [] kind = "spare-replacing-degraded" ->
            Spare(name, "DEGRADED", Entry(name \o "-r", Replacing(name, "DEGRADED")))
      [] kind = "spare-replacing-unavail" ->
            Spare(name, "DEGRADED", Entry(name \o "-r", Replacing(name, "UNAVAIL")))
      [] kind = "spare-replacing-online" ->
            Spare(name, "DEGRADED", Entry(name \o "-r", Replacing(name, "ONLINE")))
      [] kind = "spare-healthy" ->
            Spare(name, "ONLINE", Entry(name \o "-d", Disk("ONLINE")))
      [] kind = "spare-lost" ->
            Wrapper("spare", "DEGRADED",
                    <<Entry(name \o "-d", Disk("ONLINE")),
                      Entry(name \o "-s", SpareDisk("FAULTED"))>>)
      [] kind = "replacing" -> Replacing(name, "FAULTED")

\* the redundancy group g that lists devices of the kinds given, named by
\* their place
Group(kinds, g) ==
    Wrapper("mirror",
            IF \A p \in DOMAIN kinds : kinds[p] = "ONLINE" THEN "ONLINE" ELSE "DEGRADED",
            [p \in DOMAIN kinds |->
                Entry("d" \o ToString(g) \o ToString(p),
                      Member(kinds[p], "d" \o ToString(g) \o ToString(p)))])

\* a pool with a first group of up to MaxDrives devices of any kinds, alone or
\* beside a second group
GroupedPools ==
    {Pool("tank", "DEGRADED", <<Entry("mirror-0", Group(kinds, 0))>> \o second) :
        kinds \in UNION {[1..n -> MemberKinds] : n \in 1..MaxDrives},
        second \in {<<>>,
                    <<Entry("mirror-1", Group(<<"ONLINE", "ONLINE">>, 1))>>,
                    <<Entry("mirror-1", Group(<<"DEGRADED", "FAULTED">>, 1))>>}}

\* a pool with or without logs (a disk, a mirrored pair, a pair with one side
\* faulted and a disk), a cache device and spares
AuxiliaryPools ==
    {ShapedPool("tank", shape) @@ logs @@ l2cache @@ spares :
        shape \in Shapes,
        logs \in {<<>>,
                  [logs |-> <<Entry("sdg", Disk("ONLINE"))>>],
                  [logs |-> <<Entry("mirror-1", Wrapper("mirror", "ONLINE",
                               <<Entry("sdg", Disk("ONLINE")),
                                 Entry("sdh", Disk("ONLINE"))>>))>>],
                  [logs |-> <<Entry("mirror-1", Wrapper("mirror", "DEGRADED",
                               <<Entry("sdg", Disk("ONLINE")),
                                 Entry("sdh", Disk("FAULTED"))>>)),
                              Entry("sdj", Disk("ONLINE"))>>]},
        l2cache \in {<<>>,
                     [l2cache |-> <<Entry("sdi", Disk("ONLINE"))>>],
                     [l2cache |-> <<Entry("sdi", Disk("FAULTED")),
                                    Entry("sdk", Disk("ONLINE"))>>]},
        spares \in {<<>>,
                    [spares |-> <<Entry("sdf", Disk("AVAIL"))>>],
                    [spares |-> <<Entry("sdf", Disk("INUSE")),
                                  Entry("sdl", Disk("AVAIL"))>>]}}

\* what a pool reports of itself, beside what its devices report
PoolKinds ==
    {<<"ONLINE", "healthy">>, <<"ONLINE", "faulted">>, <<"DEGRADED", "faulted">>,
     <<"DEGRADED", "healthy">>, <<"FAULTED", "faulted">>, <<"SUSPENDED", "healthy">>,
     <<"AVAIL", "healthy">>, <<"INUSE", "healthy">>}

RECURSIVE StatedPools(_, _)
StatedPools(choice, i) ==
    IF i > MaxPools THEN <<>>
    ELSE (IF choice[i] = <<>> THEN <<>>
          ELSE <<Entry(PoolNames[i],
                       [ShapedPool(PoolNames[i], choice[i][2])
                           EXCEPT !.state = choice[i][1]])>>)
         \o StatedPools(choice, i + 1)

\* the documents explored for the classifier alone: one pool with the groups
\* of GroupedPools, one pool of AuxiliaryPools, and up to MaxPools pools of
\* any kinds
ClassifyInputs ==
    {[pools |-> <<Entry("tank", pool)>>] : pool \in GroupedPools \cup AuxiliaryPools}
    \cup {[pools |-> StatedPools(choice, 1)] :
             choice \in [1..MaxPools -> PoolKinds \cup {<<>>}]}

\* documents that lack a key check() subscripts: one without 'pools', and
\* pools whose top-level vdev is a plain disk, which has no 'vdevs'
MalformedInputs ==
    {[output_version |-> "0.1"]}
    \cup {[pools |-> <<Entry(PoolNames[i],
                Pool(PoolNames[i], "ONLINE", <<Entry("sda", Disk("ONLINE"))>>))>>] :
            i \in 1..2}

(* ------------------------------------------------------------------ *)
(* POOLS: the validation at load time (lines 50-60)                   *)
(* ------------------------------------------------------------------ *)

Lower == {"a", "b", "c", "d", "e", "f", "g", "h", "i", "j", "k", "l", "m",
          "n", "o", "p", "q", "r", "s", "t", "u", "v", "w", "x", "y", "z"}

Upper == {"A", "B", "C", "D", "E", "F", "G", "H", "I", "J", "K", "L", "M",
          "N", "O", "P", "Q", "R", "S", "T", "U", "V", "W", "X", "Y", "Z"}

Digits == {"0", "1", "2", "3", "4", "5", "6", "7", "8", "9"}

\* \s and \w of Python's re, on the ASCII characters explored
Spaces == {" ", "\t", "\n", "\r", "\f"}

WordChars == Lower \cup Upper \cup Digits \cup {"_"}

\* the characters [^a-zA-Z0-9_.:,\s-] does not match (line 54)
Allowed == Lower \cup Upper \cup Digits \cup {"_", ".", ":", ",", "-"} \cup Spaces

\* str.strip() (line 50)
RECURSIVE lstrip(_)
lstrip(s) ==
    IF s # "" /\ SubSeq(s, 1, 1) \in Spaces THEN lstrip(SubSeq(s, 2, Len(s))) ELSE s

RECURSIVE rstrip(_)
rstrip(s) ==
    IF s # "" /\ SubSeq(s, Len(s), Len(s)) \in Spaces
    THEN rstrip(SubSeq(s, 1, Len(s) - 1)) ELSE s

strip(s) == rstrip(lstrip(s))

is_word(s, i) == i >= 1 /\ i <= Len(s) /\ SubSeq(s, i, i) \in WordChars

\* \b in front of the i-th character of s
boundary(s, i) == is_word(s, i - 1) # is_word(s, i)

\* whether the literal stands in s at i
starts(s, i, literal) ==
    i + Len(literal) - 1 <= Len(s) /\ SubSeq(s, i, i + Len(literal) - 1) = literal

\* the last place of a run of characters outside stop that begins at i, i - 1
\* when the run is empty: what a greedy \S* or .* takes
RECURSIVE run_end(_, _, _)
run_end(s, i, stop) ==
    IF i > Len(s) THEN i - 1
    ELSE IF SubSeq(s, i, i) \in stop THEN i - 1
    ELSE run_end(s, i + 1, stop)

\* the greedy run given back until a \b follows: the last place in from..to
\* that has a \b behind it, 0 when none has
last_boundary(s, from, to) ==
    LET ends == {e \in from..to : boundary(s, e + 1)}
    IN IF ends = {} THEN 0 ELSE CHOOSE e \in ends : \A f \in ends : f <= e

word_alternative_none(s, i) == 0

\* where \b(?:c[0-9]\S*|log|mirror|raidz[1-3]?|spare|[0-9_.:-].*)\b ends when
\* it is tried at i, 0 when it does not match there (line 54): the
\* alternatives in their order, each with what it takes first
word_alternative(s, i) ==
    IF ~boundary(s, i) THEN 0
    ELSE LET device == IF starts(s, i, "c") /\ i + 1 <= Len(s)
                          /\ SubSeq(s, i + 1, i + 1) \in Digits
                       THEN last_boundary(s, i + 1, run_end(s, i + 2, Spaces))
                       ELSE 0
             log_ == IF starts(s, i, "log") /\ boundary(s, i + 3) THEN i + 2 ELSE 0
             mirror == IF starts(s, i, "mirror") /\ boundary(s, i + 6) THEN i + 5 ELSE 0
             raidz == IF ~starts(s, i, "raidz") THEN 0
                      ELSE IF i + 5 <= Len(s) /\ SubSeq(s, i + 5, i + 5) \in {"1", "2", "3"}
                              /\ boundary(s, i + 6) THEN i + 5
                      ELSE IF boundary(s, i + 5) THEN i + 4
                      ELSE 0
             spare == IF starts(s, i, "spare") /\ boundary(s, i + 5) THEN i + 4 ELSE 0
             leading == IF SubSeq(s, i, i) \in Digits \cup {"_", ".", ":", "-"}
                        THEN last_boundary(s, i, run_end(s, i + 1, {"\n"}))
                        ELSE 0
         IN IF device # 0 THEN device
            ELSE IF log_ # 0 THEN log_
            ELSE IF mirror # 0 THEN mirror
            ELSE IF raidz # 0 THEN raidz
            ELSE IF spare # 0 THEN spare
            ELSE leading

\* where the pattern of line 54 ends when it is tried at i, 0 for no match
match_end(s, i) ==
    IF SubSeq(s, i, i) \notin Allowed THEN i ELSE word_alternative(s, i)

\* re.sub(pattern, "", s) from the i-th character on (lines 53-57)
RECURSIVE re_sub(_, _)
re_sub(s, i) ==
    IF i > Len(s) THEN ""
    ELSE LET end == match_end(s, i)
         IN IF end # 0 THEN re_sub(s, end + 1)
            ELSE SubSeq(s, i, i) \o re_sub(s, i + 1)

\* whether loading raises ValueError on the value of the variable (lines 50-59)
raises_ValueError(value) ==
    LET pools_env == strip(value)
        pools_tmp == re_sub(pools_env, 1)
    IN Len(pools_env) # Len(pools_tmp)

\* the longest of the values of the variable that are explored exhaustively
MaxEnvLen == 3

EnvAlphabet == {"l", "o", "g", " ", ";", "-", "_", "2", ","}

RECURSIVE Strings(_)
Strings(n) ==
    IF n = 0 THEN {""}
    ELSE LET shorter == Strings(n - 1)
         IN shorter \cup {s \o c : s \in shorter, c \in EnvAlphabet}

\* the values of the environment variable POOLS explored: every string over
\* EnvAlphabet up to MaxEnvLen, and values of the kinds an operator may set
PoolsEnvs ==
    Strings(MaxEnvLen)
    \cup {"tank", " tank ", "tank backup", "tank,backup", "tank; rm -rf /",
          "tank mirror log raidz", "mirror", "raidz2", "tank spare", "catalog",
          "logs", "my-pool", "c0t0d0", "2fast", "$(reboot)", "tank|sh", "tank\nlog",
          "Tank_1"}

\* the values of POOLS explored with a loaded configuration: every pool, or
\* the pool tank alone (line 60)
PoolsSettings == {"", "tank"}

\* the values POOLS can have after loading
PoolsValues ==
    PoolsSettings
    \cup UNION {IF raises_ValueError(value) THEN {} ELSE {re_sub(strip(value), 1)} :
                  value \in PoolsEnvs}

\* the words the shell splits a POOLS value into (line 224, shell=True)
RECURSIVE shell_words(_, _, _)
shell_words(s, from, i) ==
    IF i > Len(s) THEN (IF from > Len(s) THEN {} ELSE {SubSeq(s, from, Len(s))})
    ELSE IF SubSeq(s, i, i) \in Spaces
    THEN (IF from = i THEN {} ELSE {SubSeq(s, from, i - 1)})
         \cup shell_words(s, i + 1, i + 1)
    ELSE shell_words(s, from, i + 1)

\* what `zpool status -j {POOLS}` can print (line 224): a document about the
\* pools named, about every pool when none is named
Documents ==
    [pools \in PoolsValues |->
        IF pools = "" THEN StatusInputs \cup MalformedInputs
        ELSE UNION {IF "pools" \in DOMAIN status
                    THEN (IF Keys(status.pools) = shell_words(pools, 1, 1)
                          THEN {status} ELSE {})
                    ELSE {} :
                       status \in StatusInputs \cup MalformedInputs}]

\* whether a subscript on a redundancy group or on one of its drives names a
\* key that is missing (lines 251-257)
vdev_KeyError(vdev) ==
    IF "vdevs" \notin DOMAIN vdev THEN TRUE
    ELSE \E i \in DOMAIN vdev.vdevs :
            LET drive == vdev.vdevs[i].v
            IN IF "state" \notin DOMAIN drive THEN TRUE
               ELSE drive.state # "ONLINE" /\ "vdev_type" \notin DOMAIN drive

\* whether a subscript on a pool names a key that is missing (lines 233-251)
pool_KeyError(pool_name, pool, show_space) ==
    IF "state" \notin DOMAIN pool \/ "vdevs" \notin DOMAIN pool THEN TRUE
    ELSE IF ~Has(pool.vdevs, pool_name) THEN TRUE
    ELSE LET top == Get(pool.vdevs, pool_name)
         IN IF show_space /\ "alloc_space" \in DOMAIN top
                          /\ "total_space" \notin DOMAIN top THEN TRUE
            ELSE IF "vdevs" \notin DOMAIN top THEN TRUE
            ELSE \E i \in DOMAIN top.vdevs : vdev_KeyError(top.vdevs[i].v)

\* whether check() raises KeyError on the document (lines 232-257); below the
\* drives of a group the documents explored have every key
raises_KeyError(status, show_space) ==
    IF "pools" \notin DOMAIN status THEN TRUE
    ELSE \E i \in DOMAIN status.pools :
            pool_KeyError(status.pools[i].k, status.pools[i].v, show_space)

\* the documents check() gets through, and those it raises on, computed once
Readable ==
    [show_space \in BOOLEAN |->
        [pools \in PoolsValues |->
            UNION {IF raises_KeyError(d, show_space) THEN {} ELSE {d} :
                      d \in Documents[pools]}]]

Unreadable ==
    [show_space \in BOOLEAN |->
        [pools \in PoolsValues |->
            UNION {IF raises_KeyError(d, show_space) THEN {d} ELSE {} :
                      d \in Documents[pools]}]]

\* check()'s snapshot of every document it gets through, computed once
check_data ==
    [show_space \in BOOLEAN |->
        [status \in Readable[show_space][""] |-> classify(status, show_space)]]

\* the call subprocess.check_output(f"zpool status -j {POOLS}", shell=True,
\* text=True) of line 224: one string, handed to the shell
zpool_status(pools) ==
    [shell |-> TRUE, args |-> [type |-> "str", value |-> "zpool status -j " \o pools]]

(* ------------------------------------------------------------------ *)
(* check_status: what it composes and what it stores                  *)
(* ------------------------------------------------------------------ *)

changed_in_order(old, data) == old # data

changed_pools_only(old, data) == ~pools_eq(old.vdevs, data.vdevs)

changed_always(old, data) == TRUE

\* old_data != data (line 157)
changed(old, data) == ~snapshot_eq(old, data)

\* the pools of data that line 166 selects, in data's order
RECURSIVE changed_pools(_, _, _)
changed_pools(old, data, i) ==
    IF i > Len(data.vdevs) THEN <<>>
    ELSE LET vdev_name == data.vdevs[i].k
             vdev == data.vdevs[i].v
         IN (IF ~Has(old.vdevs, vdev_name) \/ ~pool_eq(Get(old.vdevs, vdev_name), vdev)
             THEN <<data.vdevs[i]>> ELSE <<>>)
            \o changed_pools(old, data, i + 1)

compose_always_per_pool(old, data, verbose, extra, now) ==
    LET sel == changed_pools(old, data, 1)
    IN [i \in DOMAIN sel |-> get_embed(sel[i].k, sel[i].v, extra, now)]

compose_every_pool(old, data, verbose, extra, now) ==
    IF ~verbose
    THEN <<get_embed("", data, extra, now)>>
    ELSE [i \in DOMAIN data.vdevs |->
             get_embed(data.vdevs[i].k, data.vdevs[i].v, extra, now)]

\* the embeds list of lines 158-167
compose(old, data, verbose, extra, now) ==
    IF ~verbose
    THEN <<get_embed("", data, extra, now)>>
    ELSE LET sel == changed_pools(old, data, 1)
         IN [i \in DOMAIN sel |-> get_embed(sel[i].k, sel[i].v, extra, now)]

stored_counters_only(data) == [data EXCEPT !.vdevs = <<>>]

stored_nothing(data) == [vdevs |-> <<>>]

\* old_data = data.copy() (line 169)
stored(data) == data

accepted_never(status_code) == FALSE

\* response.status_code == 204 (line 187)
accepted(status_code) == status_code = 204

\* whether a caught RequestException is followed by time.sleep (line 192)
sleeps_after(n, max_retries) == n < max_retries - 1

\* whether `except requests.exceptions.RequestException` catches (line 190)
caught(exc) == exc = "RequestException"

(* ------------------------------------------------------------------ *)
(* The process                                                        *)
(* ------------------------------------------------------------------ *)

VARIABLES
    VERBOSE,              \* configuration, fixed at load time (lines 32-66)
    SHOW_SPACE,
    DISCORD_MAX_RETRIES,
    EXTRA,
    WEBSERVER,
    POOLS,
    environ,              \* the value of the environment variable POOLS (line 50)
    old_data,             \* the stored snapshot (line 152)
    shutdown_event,       \* line 360
    pc,                   \* where the process is: "load" and "load_failed" while
                          \* the module is loaded, then in main() "start", "loop",
                          \* "check", "post", "sleep", "wait", "returned", "exited"
    data,                 \* the argument of the latest check_status call (line 297)
    cycle,                \* what the check() of this cycle did: "none",
                          \* "command_failed", "raised", "same", "notify";
                          \* "rendered" when get_embed, called by itself,
                          \* has returned
    embeds,               \* the embeds of the payload of the current check_status call
    attempt,              \* the loop variable of line 179
    posts,                \* requests.post calls of the current cycle
    sleeps,               \* time.sleep calls of the current cycle
    last,                 \* outcome of the latest requests.post of the cycle
    log,                  \* what the cycle has logged
    command,              \* the latest call of subprocess.check_output (line 224)
    status_doc,           \* the document json.loads returned to the check()
                          \* of this cycle, if it returned one (line 224)
    undelivered,          \* whether the delivery loop of the latest notification
                          \* ran out without a break (lines 179-194)
    server,               \* the server and its thread (lines 376-379), with the
                          \* calls main() has made on them
    req,                  \* where the Handler thread is in do_GET, with its locals
    response              \* what do_GET has sent for the request in hand

vars == <<VERBOSE, SHOW_SPACE, DISCORD_MAX_RETRIES, EXTRA, WEBSERVER, POOLS, environ,
          old_data, shutdown_event, pc, data, cycle, embeds, attempt, posts, sleeps,
          last, log, command, status_doc, undelivered, server, req, response>>

config == <<VERBOSE, SHOW_SPACE, DISCORD_MAX_RETRIES, EXTRA, WEBSERVER, POOLS, environ>>

web == <<server, req, response>>

\* the clock readings int(time.time()) returns
Epochs == {1762222222}

\* the status codes the webhook answers with
StatusCodes == {204, 400}

\* what requests.post raises: a requests.exceptions.RequestException, or
\* another Exception
PostExceptions == {"RequestException", "Exception"}

NoOutcome == [kind |-> "none"]

\* before the first check_status call
NoData == [none |-> TRUE]

\* before the first call of subprocess.check_output
NoCommand == [shell |-> FALSE]

\* json.loads has not returned a document in this cycle
NoStatus == [none |-> TRUE]

\* no request in hand
Idle == [pc |-> "idle"]

NoResponse == [status |-> 0]

\* no server: WEBSERVER is off, or main() has not come to line 376
NoServer == [state |-> "none", shutdown |-> 0, server_close |-> 0, join |-> 0]

Init ==
    /\ VERBOSE \in BOOLEAN
    /\ SHOW_SPACE \in BOOLEAN
    /\ DISCORD_MAX_RETRIES \in 0..MaxRetries
    /\ EXTRA = ""
    /\ WEBSERVER \in BOOLEAN
    /\ POOLS \in PoolsSettings
    /\ environ = POOLS
    /\ old_data = [vdevs |-> <<>>]
    /\ shutdown_event = FALSE
    /\ pc = "start"
    /\ data = NoData
    /\ cycle = "none"
    /\ embeds = <<>>
    /\ attempt = 0
    /\ posts = 0
    /\ sleeps = 0
    /\ last = NoOutcome
    /\ log = {}
    /\ command = NoCommand
    /\ status_doc = NoStatus
    /\ undelivered = FALSE
    /\ server = NoServer
    /\ req = Idle
    /\ response = NoResponse

\* the module is loaded: the value of POOLS is stripped and validated, and
\* bound to POOLS; or ValueError is raised and the process ends before main()
\* is called (lines 50-60)
load ==
    /\ pc = "load"
    /\ IF raises_ValueError(environ)
       THEN /\ pc' = "load_failed"
            /\ UNCHANGED POOLS
       ELSE /\ pc' = "start"
            /\ POOLS' = re_sub(strip(environ), 1)
    /\ UNCHANGED <<VERBOSE, SHOW_SPACE, DISCORD_MAX_RETRIES, EXTRA, WEBSERVER, environ,
                   web, old_data, shutdown_event, data, cycle, embeds, attempt, posts,
                   sleeps, last, log, status_doc, command, undelivered>>

\* main() up to the loop: with WEBSERVER the server is bound and its daemon
\* thread started (lines 374-379)
main_starts ==
    /\ pc = "start"
    /\ pc' = "loop"
    /\ server' = IF WEBSERVER THEN [server EXCEPT !.state = "serving"] ELSE server
    /\ UNCHANGED <<config, old_data, shutdown_event, data, cycle, embeds, attempt,
                   posts, sleeps, last, log, req, response,
                   status_doc, command, undelivered>>

\* ThreadingHTTPServer((HOST, PORT), Handler) raises OSError, the address
\* being in use or not allowed: main() logs it and exits with status 1
\* (lines 376, 385-387)
server_bind_fails ==
    /\ pc = "start"
    /\ WEBSERVER
    /\ pc' = "exited"
    /\ log' = {"Application error"}
    /\ UNCHANGED <<config, web, old_data, shutdown_event, data, cycle, embeds, attempt,
                   posts, sleeps, last,
                   status_doc, command, undelivered>>

\* `while not shutdown_event.is_set()` finds the event clear, and main() goes
\* on to call check() (lines 381-382)
loop_enters ==
    /\ pc = "loop"
    /\ ~shutdown_event
    /\ pc' = "check"
    /\ UNCHANGED <<config, web, old_data, shutdown_event, data, cycle, embeds, attempt,
                   posts, sleeps, last, log,
                   status_doc, command, undelivered>>

check_command_fails_uncaught ==
    /\ pc = "check"
    /\ pc' = "exited"
    /\ cycle' = "command_failed"
    /\ log' = {"Application error"}
    /\ embeds' = <<>>
    /\ attempt' = 0
    /\ posts' = 0
    /\ sleeps' = 0
    /\ last' = NoOutcome
    /\ command' = zpool_status(POOLS)
    /\ status_doc' = NoStatus
    /\ UNCHANGED <<config, web, old_data, shutdown_event, data, undelivered>>

\* check() when the status command fails: CalledProcessError is caught and
\* logged (lines 224, 299-300), then main() waits (line 383)
check_command_fails ==
    /\ pc = "check"
    /\ pc' = "wait"
    /\ cycle' = "command_failed"
    /\ log' = {"Error executing command"}
    /\ embeds' = <<>>
    /\ attempt' = 0
    /\ posts' = 0
    /\ sleeps' = 0
    /\ last' = NoOutcome
    /\ command' = zpool_status(POOLS)
    /\ status_doc' = NoStatus
    /\ UNCHANGED <<config, web, old_data, shutdown_event, data, undelivered>>

check_bad_json_skipped ==
    /\ pc = "check"
    /\ pc' = "wait"
    /\ cycle' = "raised"
    /\ log' = {"Error executing command"}
    /\ embeds' = <<>>
    /\ attempt' = 0
    /\ posts' = 0
    /\ sleeps' = 0
    /\ last' = NoOutcome
    /\ command' = zpool_status(POOLS)
    /\ status_doc' = NoStatus
    /\ UNCHANGED <<config, web, old_data, shutdown_event, data, undelivered>>

\* check() when the command's output is not JSON: json.loads raises a
\* ValueError, which check() does not catch; main() logs it and exits with
\* status 1 (lines 224, 385-387)
check_bad_json ==
    /\ pc = "check"
    /\ pc' = "exited"
    /\ cycle' = "raised"
    /\ log' = {"Application error"}
    /\ embeds' = <<>>
    /\ attempt' = 0
    /\ posts' = 0
    /\ sleeps' = 0
    /\ last' = NoOutcome
    /\ command' = zpool_status(POOLS)
    /\ status_doc' = NoStatus
    /\ UNCHANGED <<config, web, old_data, shutdown_event, data, undelivered>>

\* check() on a document that lacks a key it subscripts: the KeyError is not
\* caught by check(); main() logs it and exits with status 1 (lines 232-257,
\* 385-387)
check_key_error ==
    /\ pc = "check"
    /\ \E document \in Unreadable[SHOW_SPACE][POOLS] : status_doc' = document
    /\ pc' = "exited"
    /\ cycle' = "raised"
    /\ log' = {"Application error"}
    /\ embeds' = <<>>
    /\ attempt' = 0
    /\ posts' = 0
    /\ sleeps' = 0
    /\ last' = NoOutcome
    /\ command' = zpool_status(POOLS)
    /\ UNCHANGED <<config, web, old_data, shutdown_event, data, undelivered>>

\* check() on a status document, up to the first requests.post of
\* check_status (lines 223-297, 154-179)
check_classifies ==
    /\ pc = "check"
    /\ \E document \in Readable[SHOW_SPACE][POOLS], now \in Epochs :
          LET new == check_data[SHOW_SPACE][document]
          IN /\ status_doc' = document
             /\ data' = new
             /\ IF changed(old_data, new)
                THEN /\ embeds' = compose(old_data, new, VERBOSE, EXTRA, now)
                     /\ old_data' = stored(new)
                     /\ log' = {"Status: " \o logged_status(new)}
                     /\ undelivered' = FALSE
                     /\ cycle' = "notify"
                     /\ pc' = "post"
                ELSE /\ embeds' = <<>>
                     /\ old_data' = old_data
                     /\ log' = {}
                     /\ UNCHANGED undelivered
                     /\ cycle' = "same"
                     /\ pc' = "wait"
    /\ command' = zpool_status(POOLS)
    /\ attempt' = 0
    /\ posts' = 0
    /\ sleeps' = 0
    /\ last' = NoOutcome
    /\ UNCHANGED <<config, web, shutdown_event>>

\* one requests.post that returns a response (lines 181-189)
post_responds ==
    /\ pc = "post"
    /\ attempt < DISCORD_MAX_RETRIES
    /\ \E status_code \in StatusCodes :
          /\ last' = [kind |-> "response", status_code |-> status_code]
          /\ IF accepted(status_code)
             THEN /\ pc' = "wait"
                  /\ UNCHANGED <<attempt, log>>
             ELSE /\ pc' = "post"
                  /\ attempt' = attempt + 1
                  /\ log' = log \cup {"Discord API returned status code"}
    /\ posts' = posts + 1
    /\ UNCHANGED <<config, web, old_data, shutdown_event, data, cycle, embeds, sleeps,
                   status_doc, command, undelivered>>

\* one requests.post that raises (lines 181-194): a caught exception is logged
\* and followed by the sleep or by the next attempt; any other one leaves
\* check_status and check(), and main() logs it and exits with status 1
post_raises ==
    /\ pc = "post"
    /\ attempt < DISCORD_MAX_RETRIES
    /\ \E exc \in PostExceptions :
          /\ last' = [kind |-> "raise", exc |-> exc]
          /\ IF caught(exc)
             THEN /\ log' = log \cup {"Attempt failed"}
                  /\ IF sleeps_after(attempt, DISCORD_MAX_RETRIES)
                     THEN pc' = "sleep" /\ UNCHANGED attempt
                     ELSE pc' = "post" /\ attempt' = attempt + 1
             ELSE /\ log' = log \cup {"Application error"}
                  /\ pc' = "exited"
                  /\ UNCHANGED attempt
    /\ posts' = posts + 1
    /\ UNCHANGED <<config, web, old_data, shutdown_event, data, cycle, embeds, sleeps,
                   status_doc, command, undelivered>>

\* time.sleep(DISCORD_RETRY_DELAY) returns, then `continue` (lines 193-194)
retry_sleep ==
    /\ pc = "sleep"
    /\ sleeps' = sleeps + 1
    /\ attempt' = attempt + 1
    /\ pc' = "post"
    /\ UNCHANGED <<config, web, old_data, shutdown_event, data, cycle, embeds, posts, last, log,
                   status_doc, command, undelivered>>

\* range(DISCORD_MAX_RETRIES) is exhausted: check_status and check() return
\* (line 179), main() waits (line 383)
retries_exhausted ==
    /\ pc = "post"
    /\ attempt >= DISCORD_MAX_RETRIES
    /\ pc' = "wait"
    /\ undelivered' = (cycle = "notify")
    /\ UNCHANGED <<config, web, old_data, shutdown_event, data, cycle, embeds, attempt,
                   posts, sleeps, last, log, status_doc, command>>

\* shutdown_event.wait(CHECK_DELAY) returns, at the timeout or because the
\* event is set (line 383); the record of the cycle that ended is dropped
wait_returns ==
    /\ pc = "wait"
    /\ pc' = "loop"
    /\ cycle' = "none"
    /\ embeds' = <<>>
    /\ attempt' = 0
    /\ posts' = 0
    /\ sleeps' = 0
    /\ last' = NoOutcome
    /\ log' = {}
    /\ status_doc' = NoStatus
    /\ UNCHANGED <<config, web, old_data, shutdown_event, data, command, undelivered>>

\* `while not shutdown_event.is_set()` finds the event set: the loop ends and
\* main() returns (line 381)
loop_ends ==
    /\ pc = "loop"
    /\ shutdown_event
    /\ pc' = "returned"
    /\ UNCHANGED <<config, web, old_data, shutdown_event, data, cycle, embeds, attempt,
                   posts, sleeps, last, log,
                   status_doc, command, undelivered>>

\* quit(signo, _frame) on SIGTERM, SIGINT or SIGHUP (lines 389-399), once the
\* handlers are installed (lines 402-404)
quit ==
    /\ pc \notin {"load", "load_failed", "returned", "exited"}
    /\ ~shutdown_event
    /\ shutdown_event' = TRUE
    /\ UNCHANGED <<config, web, old_data, pc, data, cycle, embeds, attempt, posts, sleeps,
                   last, log,
                   status_doc, command, undelivered>>

(* ------------------------------------------------------------------ *)
(* Handler.do_GET                                                     *)
(* ------------------------------------------------------------------ *)

\* s[1:]
drop_first(s) == SubSeq(s, 2, Len(s))

\* s.split(sep, 1)[0]: s up to its first sep, looked for from position i
RECURSIVE split_first(_, _, _)
split_first(s, sep, i) ==
    IF i > Len(s) THEN s
    ELSE IF SubSeq(s, i, i) = sep THEN SubSeq(s, 1, i - 1)
    ELSE split_first(s, sep, i + 1)

\* s.split(sep): the piece that starts at from, and the pieces after it
RECURSIVE split(_, _, _, _)
split(s, sep, from, i) ==
    IF i > Len(s) THEN <<SubSeq(s, from, Len(s))>>
    ELSE IF SubSeq(s, i, i) = sep
    THEN <<SubSeq(s, from, i - 1)>> \o split(s, sep, i + 1, i + 1)
    ELSE split(s, sep, from, i + 1)

path_with_query(raw) == drop_first(raw)

\* path (line 316)
path_of(raw) == split_first(drop_first(raw), "?", 1)

\* Python's type of a value of the snapshot, by the place it has in it; what
\* data[key] is, given what data is
child_kind(kind, key) ==
    CASE kind = "snapshot" -> IF key = "vdevs" THEN "pools" ELSE "int"
      [] kind = "pools" -> "pool"
      [] kind = "pool" ->
            IF key = "vdevs" THEN "groups"
            ELSE IF key \in {"degraded_drives", "offline_drives"} THEN "list"
            ELSE IF key \in {"alloc_space", "total_space"} THEN "str"
            ELSE "int"
      [] kind = "groups" -> "group"
      [] OTHER -> "int"

membership_by_subscript(kind, value, key) ==
    CASE kind \in {"snapshot", "pool", "group"} ->
            IF key \in DOMAIN value THEN "in" ELSE "TypeError"
      [] kind \in {"pools", "groups"} ->
            IF Has(value, key) THEN "in" ELSE "TypeError"
      [] OTHER -> "TypeError"

\* `key in value` (line 327): a dict has the key, a list has the element, a
\* str has the substring, and an int raises TypeError
membership(kind, value, key) ==
    CASE kind \in {"snapshot", "pool", "group"} ->
            IF key \in DOMAIN value THEN "in" ELSE "not in"
      [] kind \in {"pools", "groups"} ->
            IF Has(value, key) THEN "in" ELSE "not in"
      [] kind = "list" ->
            IF \E i \in DOMAIN value : value[i] = key THEN "in" ELSE "not in"
      [] kind = "str" ->
            IF \E i \in 1..(Len(value) - Len(key) + 1) :
                  SubSeq(value, i, i + Len(key) - 1) = key
            THEN "in" ELSE "not in"
      [] OTHER -> "TypeError"

\* value[key] with a str key (line 331) raises TypeError on a list and a str
subscriptable(kind) == kind \in {"snapshot", "pool", "group", "pools", "groups"}

subscript_from_store(kind, value, key) ==
    LET RECURSIVE walk(_, _, _)
        walk(k, v, j) ==
            IF j >= req.i THEN [k |-> k, v |-> v]
            ELSE IF req.keys[j] = "" THEN walk(k, v, j + 1)
            ELSE IF ~subscriptable(k) \/ membership(k, v, req.keys[j]) # "in"
            THEN [k |-> "int", v |-> 0]
            ELSE walk(child_kind(k, req.keys[j]),
                      IF k \in {"pools", "groups"} THEN Get(v, req.keys[j])
                      ELSE v[req.keys[j]],
                      j + 1)
        now == walk("snapshot", old_data, 1)
    IN IF ~subscriptable(now.k) \/ membership(now.k, now.v, key) # "in" THEN 0
       ELSE IF now.k \in {"pools", "groups"} THEN Get(now.v, key) ELSE now.v[key]

\* value[key] (line 331)
subscript(kind, value, key) ==
    IF kind \in {"pools", "groups"} THEN Get(value, key) ELSE value[key]

\* the keys of a dict of the snapshot, in the order check() inserts them
\* (lines 212-214, 229, 236-245, 152)
key_order(kind) ==
    CASE kind = "snapshot" -> <<"total", "online", "degraded", "vdevs">>
      [] kind = "pool" -> <<"degraded_drives", "offline_drives", "vdevs", "alloc_space",
                            "total_space", "total", "online", "degraded">>
      [] OTHER -> <<"total", "online", "degraded">>

\* the pieces with ", " between them
RECURSIVE join_items(_)
join_items(items) ==
    IF items = <<>> THEN ""
    ELSE IF Len(items) = 1 THEN items[1]
    ELSE items[1] \o ", " \o join_items(Tail(items))

\* a str as json.dumps writes it: in double quotes, a double quote and a
\* backslash escaped (the strings explored are printable ASCII)
RECURSIVE json_escape(_, _)
json_escape(s, i) ==
    IF i > Len(s) THEN ""
    ELSE LET c == SubSeq(s, i, i)
         IN (IF c = "\"" THEN "\\\"" ELSE IF c = "\\" THEN "\\\\" ELSE c)
            \o json_escape(s, i + 1)

json_str(s) == "\"" \o json_escape(s, 1) \o "\""

json_dumps_kind_only(kind, value) == "<" \o kind \o ">"

\* json.dumps(data) (line 336): the text of the value, the keys of a dict in
\* insertion order, ", " and ": " as separators
RECURSIVE json_dumps(_, _)
json_dumps(kind, value) ==
    CASE kind = "int" -> ToString(value)
      [] kind = "str" -> json_str(value)
      [] kind = "list" ->
            "[" \o join_items([i \in DOMAIN value |-> json_str(value[i])]) \o "]"
      [] kind \in {"pools", "groups"} ->
            "{" \o join_items([i \in DOMAIN value |->
                      json_str(value[i].k) \o ": "
                         \o json_dumps(child_kind(kind, value[i].k), value[i].v)])
                \o "}"
      [] OTHER ->
            LET present(key) == key \in DOMAIN value
                keys == SelectSeq(key_order(kind), present)
            IN "{" \o join_items([i \in DOMAIN keys |->
                         json_str(keys[i]) \o ": "
                            \o json_dumps(child_kind(kind, keys[i]), value[keys[i]])])
                   \o "}"

propagated(exc) == {[status |-> 0, exc |-> exc]}

\* what the client has got when a send_response, end_headers or wfile.write
\* raised (the connection being gone), or the walk raised TypeError: the
\* exception is logged and a 500 is tried, which is sent or raises in its turn
\* and is passed over (lines 338-344)
handled(exc) ==
    {[status |-> 500, logged |-> "Web error", exc |-> exc],
     [status |-> 0, logged |-> "Web error", exc |-> exc]}

\* the outcomes of sending an answer: it is sent, or the sending raises
answers(answer) == {answer} \cup handled("OSError")

\* the request lines explored (self.path)
Paths ==
    {"/_ping", "/_ping?x=1", "/", "/vdevs", "/vdevs/tank", "/vdevs/tank/online",
     "//vdevs//tank/vdevs/", "/vdevs/tank?x=/total", "/total/x",
     "/vdevs/tank/offline_drives/sdc", "/vdevs/tank/total_space/T", "/nope",
     "//_ping/", "/vdevs/tank//online/"}

\* a request arrives: do_GET answers _ping at once, or binds its local data to
\* the stored snapshot (lines 316-324); root remembers the object bound
do_GET_begins ==
    /\ server.state = "serving"
    /\ pc \notin {"returned", "exited"}
    /\ req = Idle
    /\ \E raw \in Paths :
          LET path == path_of(raw)
          IN IF path = "_ping"
             THEN /\ req' = [pc |-> "sent", raw |-> raw, path |-> path]
                  /\ response' \in answers([status |-> 204])
             ELSE /\ req' = [pc |-> "walk", raw |-> raw, path |-> path,
                             keys |-> split(path, "/", 1, 1), i |-> 1,
                             kind |-> "snapshot", data |-> old_data,
                             root |-> old_data]
                  /\ response' = NoResponse
    /\ UNCHANGED <<config, server, old_data, shutdown_event, pc, data, cycle, embeds,
                   attempt, posts, sleeps, last, log,
                   status_doc, command, undelivered>>

do_GET_steps_every_piece ==
    /\ pc \notin {"returned", "exited"}
    /\ req.pc = "walk"
    /\ req.i <= Len(req.keys)
    /\ LET key == req.keys[req.i]
           found == membership(req.kind, req.data, key)
       IN IF found = "TypeError" \/ (found = "in" /\ ~subscriptable(req.kind))
          THEN /\ req' = [req EXCEPT !.pc = "sent"]
               /\ response' \in handled("TypeError")
          ELSE IF found = "not in"
          THEN /\ req' = [req EXCEPT !.pc = "sent"]
               /\ response' \in answers([status |-> 404])
          ELSE /\ req' = [req EXCEPT !.i = @ + 1,
                                     !.kind = child_kind(req.kind, key),
                                     !.data = subscript(req.kind, req.data, key)]
               /\ UNCHANGED response
    /\ UNCHANGED <<config, server, old_data, shutdown_event, pc, data, cycle, embeds,
                   attempt, posts, sleeps, last, log,
                   status_doc, command, undelivered>>

\* one turn of the loop over the keys of the path (lines 324-331, 338-342)
do_GET_steps ==
    /\ pc \notin {"returned", "exited"}
    /\ req.pc = "walk"
    /\ req.i <= Len(req.keys)
    /\ LET key == req.keys[req.i]
           found == membership(req.kind, req.data, key)
       IN IF key = ""
          THEN /\ req' = [req EXCEPT !.i = @ + 1]
               /\ UNCHANGED response
          ELSE IF found = "TypeError" \/ (found = "in" /\ ~subscriptable(req.kind))
          THEN /\ req' = [req EXCEPT !.pc = "sent"]
               /\ response' \in handled("TypeError")
          ELSE IF found = "not in"
          THEN /\ req' = [req EXCEPT !.pc = "sent"]
               /\ response' \in answers([status |-> 404])
          ELSE /\ req' = [req EXCEPT !.i = @ + 1,
                                     !.kind = child_kind(req.kind, key),
                                     !.data = subscript(req.kind, req.data, key)]
               /\ UNCHANGED response
    /\ UNCHANGED <<config, server, old_data, shutdown_event, pc, data, cycle, embeds,
                   attempt, posts, sleeps, last, log,
                   status_doc, command, undelivered>>

\* the keys are used up: 200 and the value reached, as JSON (lines 333-336)
do_GET_sends ==
    /\ pc \notin {"returned", "exited"}
    /\ req.pc = "walk"
    /\ req.i > Len(req.keys)
    /\ req' = [req EXCEPT !.pc = "sent"]
    /\ response' \in answers([status |-> 200, content_type |-> "application/json",
                             body |-> json_dumps(req.kind, req.data)])
    /\ UNCHANGED <<config, server, old_data, shutdown_event, pc, data, cycle, embeds,
                   attempt, posts, sleeps, last, log,
                   status_doc, command, undelivered>>

do_GET_returns_clears ==
    /\ pc \notin {"returned", "exited"}
    /\ req.pc = "sent"
    /\ req' = Idle
    /\ response' = NoResponse
    /\ old_data' = [vdevs |-> <<>>]
    /\ UNCHANGED <<config, server, shutdown_event, pc, data, cycle, embeds,
                   attempt, posts, sleeps, last, log,
                   status_doc, command, undelivered>>

\* do_GET returns and the thread of the request ends
do_GET_returns ==
    /\ pc \notin {"returned", "exited"}
    /\ req.pc = "sent"
    /\ req' = Idle
    /\ response' = NoResponse
    /\ UNCHANGED <<config, server, old_data, shutdown_event, pc, data, cycle, embeds,
                   attempt, posts, sleeps, last, log,
                   status_doc, command, undelivered>>

Next ==
    \/ main_starts
    \/ server_bind_fails
    \/ loop_enters
    \/ check_command_fails
    \/ check_bad_json
    \/ check_key_error
    \/ check_classifies
    \/ post_responds
    \/ post_raises
    \/ retry_sleep
    \/ retries_exhausted
    \/ wait_returns
    \/ loop_ends
    \/ quit

Spec == Init /\ [][Next]_vars

\* the process from the loading of its module on, for every value of the
\* environment variable POOLS and one setting of the rest; POOLS is not bound
\* before line 60 and is shown as ""
InitLoad ==
    /\ VERBOSE = FALSE
    /\ SHOW_SPACE = FALSE
    /\ DISCORD_MAX_RETRIES = 2
    /\ EXTRA = ""
    /\ WEBSERVER \in BOOLEAN
    /\ POOLS = ""
    /\ environ \in PoolsEnvs
    /\ old_data = [vdevs |-> <<>>]
    /\ shutdown_event = FALSE
    /\ pc = "load"
    /\ data = NoData
    /\ cycle = "none"
    /\ embeds = <<>>
    /\ attempt = 0
    /\ posts = 0
    /\ sleeps = 0
    /\ last = NoOutcome
    /\ log = {}
    /\ command = NoCommand
    /\ status_doc = NoStatus
    /\ undelivered = FALSE
    /\ server = NoServer
    /\ req = Idle
    /\ response = NoResponse

NextLoad ==
    \/ load
    \/ Next

SpecLoad == InitLoad /\ [][NextLoad]_vars

\* the process with its web server on and requests arriving, for one setting
\* of the rest of the configuration
InitWeb ==
    /\ Init
    /\ WEBSERVER
    /\ POOLS = "tank"
    /\ SHOW_SPACE
    /\ ~VERBOSE
    /\ DISCORD_MAX_RETRIES = 2

NextWeb ==
    \/ Next
    \/ do_GET_begins
    \/ do_GET_steps
    \/ do_GET_sends
    \/ do_GET_returns

SpecWeb == InitWeb /\ [][NextWeb]_vars

(* ------------------------------------------------------------------ *)
(* check_status called with a snapshot of any counters                *)
(* ------------------------------------------------------------------ *)

\* the counters with online + degraded <= total <= MaxCount
Counters ==
    {c \in [total : 0..MaxCount, online : 0..MaxCount, degraded : 0..MaxCount] :
        c.online + c.degraded <= c.total}

\* a snapshot with any counters and one child with any counters
RenderInputs ==
    {c @@ [vdevs |-> <<Entry("tank", g)>>] : c \in Counters, g \in Counters}

InitRender ==
    /\ VERBOSE = FALSE
    /\ SHOW_SPACE = FALSE
    /\ DISCORD_MAX_RETRIES = 0
    /\ EXTRA \in {"", "rack 4"}
    /\ WEBSERVER = FALSE
    /\ POOLS = ""
    /\ environ = ""
    /\ old_data = [vdevs |-> <<>>]
    /\ shutdown_event = FALSE
    /\ pc = "check"
    /\ data \in RenderInputs
    /\ cycle = "none"
    /\ embeds = <<>>
    /\ attempt = 0
    /\ posts = 0
    /\ sleeps = 0
    /\ last = NoOutcome
    /\ log = {}
    /\ command = NoCommand
    /\ status_doc = NoStatus
    /\ undelivered = FALSE
    /\ server = NoServer
    /\ req = Idle
    /\ response = NoResponse

\* check_status(data) up to the delivery loop (lines 154-179)
check_status_called ==
    /\ pc = "check"
    /\ cycle = "none"
    /\ \E now \in Epochs :
          IF changed(old_data, data)
          THEN /\ embeds' = compose(old_data, data, VERBOSE, EXTRA, now)
               /\ old_data' = stored(data)
               /\ log' = {"Status: " \o logged_status(data)}
               /\ cycle' = "notify"
               /\ pc' = "post"
          ELSE /\ embeds' = <<>>
               /\ old_data' = old_data
               /\ log' = {}
               /\ cycle' = "same"
               /\ pc' = "wait"
    /\ UNCHANGED <<config, web, shutdown_event, data, attempt, posts, sleeps, last,
                   status_doc, command, undelivered>>

SpecRender == InitRender /\ [][check_status_called]_vars

(* ------------------------------------------------------------------ *)
(* check() on a document it has parsed                                *)
(* ------------------------------------------------------------------ *)

\* json.loads has returned a document of ClassifyInputs to the first check()
\* of the process (line 224)
InitClassify ==
    /\ VERBOSE \in BOOLEAN
    /\ SHOW_SPACE = FALSE
    /\ DISCORD_MAX_RETRIES = 0
    /\ EXTRA = ""
    /\ WEBSERVER = FALSE
    /\ POOLS = ""
    /\ environ = ""
    /\ old_data = [vdevs |-> <<>>]
    /\ shutdown_event = FALSE
    /\ pc = "check"
    /\ data = NoData
    /\ cycle = "none"
    /\ embeds = <<>>
    /\ attempt = 0
    /\ posts = 0
    /\ sleeps = 0
    /\ last = NoOutcome
    /\ log = {}
    /\ command = zpool_status(POOLS)
    /\ status_doc \in ClassifyInputs
    /\ undelivered = FALSE
    /\ server = NoServer
    /\ req = Idle
    /\ response = NoResponse

\* check() from the document on, up to the delivery loop of check_status
\* (lines 225-297, 154-179)
check_parsed ==
    /\ pc = "check"
    /\ cycle = "none"
    /\ status_doc # NoStatus
    /\ ~raises_KeyError(status_doc, SHOW_SPACE)
    /\ \E now \in Epochs :
          LET new == classify(status_doc, SHOW_SPACE)
          IN /\ data' = new
             /\ IF changed(old_data, new)
                THEN /\ embeds' = compose(old_data, new, VERBOSE, EXTRA, now)
                     /\ old_data' = stored(new)
                     /\ log' = {"Status: " \o logged_status(new)}
                     /\ cycle' = "notify"
                     /\ pc' = "post"
                ELSE /\ embeds' = <<>>
                     /\ old_data' = old_data
                     /\ log' = {}
                     /\ cycle' = "same"
                     /\ pc' = "wait"
    /\ UNCHANGED <<config, web, shutdown_event, attempt, posts, sleeps, last,
                   status_doc, command, undelivered>>

SpecClassify == InitClassify /\ [][check_parsed]_vars

(* ------------------------------------------------------------------ *)
(* get_embed called by itself                                         *)
(* ------------------------------------------------------------------ *)

\* data['vdevs'] (line 114) raises KeyError on a node that has no such key
get_embed_raises(node) == "vdevs" \notin DOMAIN node

\* the nodes get_embed is given: counters alone, counters with an empty child
\* mapping, counters with one child
EmbedInputs ==
    Counters
    \cup {c @@ [vdevs |-> <<>>] : c \in Counters}
    \cup RenderInputs

InitEmbed ==
    /\ VERBOSE = FALSE
    /\ SHOW_SPACE = FALSE
    /\ DISCORD_MAX_RETRIES = 0
    /\ EXTRA \in {"", "rack 4"}
    /\ WEBSERVER = FALSE
    /\ POOLS = ""
    /\ environ = ""
    /\ old_data = [vdevs |-> <<>>]
    /\ shutdown_event = FALSE
    /\ pc = "check"
    /\ data \in EmbedInputs
    /\ cycle = "none"
    /\ embeds = <<>>
    /\ attempt = 0
    /\ posts = 0
    /\ sleeps = 0
    /\ last = NoOutcome
    /\ log = {}
    /\ command = NoCommand
    /\ status_doc = NoStatus
    /\ undelivered = FALSE
    /\ server = NoServer
    /\ req = Idle
    /\ response = NoResponse

\* get_embed('', data) (lines 80-149): the message it returns is kept in
\* embeds, or the KeyError of line 114 leaves it
get_embed_called ==
    /\ pc = "check"
    /\ cycle = "none"
    /\ \E now \in Epochs :
          IF get_embed_raises(data)
          THEN /\ embeds' = <<>>
               /\ cycle' = "raised"
          ELSE /\ embeds' = <<get_embed("", data, EXTRA, now)>>
               /\ cycle' = "rendered"
    /\ UNCHANGED <<config, web, old_data, shutdown_event, pc, data, attempt, posts,
                   sleeps, last, log, status_doc, command, undelivered>>

SpecEmbed == InitEmbed /\ [][get_embed_called]_vars

(* ------------------------------------------------------------------ *)
(* Properties of the notifier and of delivery                         *)
(* ------------------------------------------------------------------ *)

\* the latest requests.post of the cycle was answered 204
Delivered == last.kind = "response" /\ last.status_code = 204

\* a step of check() that calls check_status
CheckStatusCalled == pc = "check" /\ cycle' \in {"same", "notify"}

\* the check_status call of the cycle is over
CallOver == cycle = "notify" /\ pc \in {"wait", "exited"}

\* the pools of new that are absent from old or unequal to their node in old
ChangedPoolNames(old, new) ==
    {name \in Keys(new.vdevs) :
        ~Has(old.vdevs, name) \/ ~pool_eq(Get(old.vdevs, name), Get(new.vdevs, name))}

\* C1: a check_status call whose snapshot is deeply equal to the one of the
\* call before it composes no message, and its cycle makes no delivery
\* attempt, whatever became of the earlier call's delivery.
C1_Idempotent ==
    /\ [][(CheckStatusCalled /\ data # NoData /\ snapshot_eq(data, data'))
            => (cycle' = "same" /\ embeds' = <<>> /\ posts' = 0 /\ pc' = "wait")]_vars
    /\ [](cycle = "same" => embeds = <<>> /\ posts = 0 /\ pc = "wait")

\* a call with the pools of the stored snapshot listed in another order
C1_Witness ==
    /\ cycle = "same"
    /\ Len(data.vdevs) >= 2
    /\ data # old_data
    /\ snapshot_eq(data, old_data)

\* C2: not verbose, a snapshot that differs from the stored one is notified
\* with exactly one message, the rendering of the whole root snapshot.
C2_NonVerboseOneMessage ==
    [][(CheckStatusCalled /\ ~VERBOSE /\ ~snapshot_eq(old_data, data'))
         => /\ cycle' = "notify"
            /\ Len(embeds') = 1
            /\ \E now \in Epochs : embeds'[1] = get_embed("", data', EXTRA, now)]_vars

\* three pools, of which more than one changed, in one message
C2_Witness ==
    /\ ~VERBOSE
    /\ cycle = "notify"
    /\ Len(data.vdevs) = 3
    /\ Len(embeds) = 1
    /\ data.degraded >= 2

\* C3: verbose, the payload of a snapshot that differs from the stored one
\* holds exactly one message for each pool that is new or unequal to its
\* stored node, and none for any other pool.
C3_VerbosePerChangedPool ==
    [][(CheckStatusCalled /\ VERBOSE /\ ~snapshot_eq(old_data, data'))
         => LET names == ChangedPoolNames(old_data, data')
            IN /\ cycle' = "notify"
               /\ Len(embeds') = Cardinality(names)
               /\ \A name \in names :
                     \E now \in Epochs :
                        Cardinality({i \in DOMAIN embeds' :
                            embeds'[i] = get_embed(name, Get(data'.vdevs, name),
                                                   EXTRA, now)}) = 1]_vars

\* two changed pools and one unchanged pool: two messages
C3_Witness ==
    /\ VERBOSE
    /\ cycle = "notify"
    /\ Len(data.vdevs) = 3
    /\ Len(embeds) = 2

\* C4: verbose, a snapshot that differs from the stored one is notified with
\* at least one message.
C4_VerboseAtLeastOneMessage ==
    (VERBOSE /\ cycle = "notify") => embeds # <<>>

\* C5: after a check_status call the stored snapshot is deeply equal to the
\* call's argument, changed or not, delivered or not.
C5_StoredEqualsArgument ==
    cycle \in {"same", "notify"} => snapshot_eq(old_data, data)

\* stored although the delivery raised
C5_Witness ==
    /\ cycle = "notify"
    /\ pc = "exited"
    /\ Len(data.vdevs) = 2
    /\ snapshot_eq(old_data, data)

\* C6: a check_status call posts at most DISCORD_MAX_RETRIES times, exactly
\* that often when every attempt fails, and never when it is 0.
C6_AttemptBound ==
    /\ posts <= DISCORD_MAX_RETRIES
    /\ (CallOver /\ ~Delivered) => posts = DISCORD_MAX_RETRIES
    /\ DISCORD_MAX_RETRIES = 0 => posts = 0

\* C7: every failed attempt but the last allowed one is followed by exactly
\* one sleep before the next attempt, and the last one by none: at each
\* attempt as many sleeps as failures lie behind, and N failures end with
\* N - 1 sleeps.
C7_SleepAfterEachFailure ==
    /\ (cycle = "notify" /\ pc = "post" /\ attempt < DISCORD_MAX_RETRIES)
          => sleeps = posts
    /\ (CallOver /\ ~Delivered /\ posts >= 1) => sleeps = posts - 1

\* C8: an attempt answered 204 is the last of its call: the call is over, and
\* neither a post nor a sleep follows in the cycle.
C8_StopsAtAccepted ==
    /\ [](Delivered => pc = "wait")
    /\ [][Delivered => \/ (posts' = posts /\ sleeps' = sleeps)
                       \/ (cycle' = "none" /\ posts' = 0 /\ sleeps' = 0)]_vars

\* accepted at the second attempt of three
C8_Witness ==
    /\ Delivered
    /\ posts = 2
    /\ DISCORD_MAX_RETRIES = 3

\* C9: no failure of delivery leaves check_status: a cycle that notifies
\* never ends the process.
C9_DeliveryFailureContained ==
    cycle = "notify" => pc # "exited"

\* C10: a cycle whose status command fails posts nothing, keeps the stored
\* snapshot, logs the error, and the loop goes on.
C10_CommandFailureSkipsCycle ==
    /\ [][cycle' = "command_failed" => old_data' = old_data]_vars
    /\ [](cycle = "command_failed"
            => /\ posts = 0
               /\ embeds = <<>>
               /\ "Error executing command" \in log
               /\ pc = "wait"
               /\ ENABLED wait_returns)

\* the command fails after a snapshot with pools was stored
C10_Witness ==
    /\ cycle = "command_failed"
    /\ Len(old_data.vdevs) = 2

(* ------------------------------------------------------------------ *)
(* Properties of the poll loop, the web server and rendering          *)
(* ------------------------------------------------------------------ *)

\* C11: a cycle whose command output is not JSON, or lacks a key the
\* classifier reads, is skipped: the process does not end, main() goes on to
\* wait, and the next cycle runs.
C11_MalformedOutputSkipsCycle ==
    cycle = "raised" => (pc = "wait" /\ ENABLED wait_returns)

\* an exception has left check(): raised by json.loads or by a subscript of
\* the classifier, or raised by requests.post and not caught
EscapedCheck ==
    \/ cycle = "raised"
    \/ cycle = "notify" /\ last.kind = "raise" /\ ~caught(last.exc)

\* the server could not be created when main() started
BindFailed == cycle = "none" /\ WEBSERVER /\ server.state = "none" /\ data = NoData

\* C12 as stated: an exception that leaves check() is logged and ends the
\* process with status 1, no further cycle runs, and the process ends on a
\* fault in no other way.
C12_OnlyCheckFaultsEndProcess ==
    /\ EscapedCheck => pc = "exited"
    /\ pc = "exited" => ("Application error" \in log /\ ~ENABLED Next)
    /\ pc = "exited" => EscapedCheck

\* C12, amended: an exception that leaves check() is logged and ends the
\* process with status 1, and no further cycle runs; the process ends on a
\* fault in one other way only, when the web server cannot be created at
\* startup, which main() logs and ends with status 1 as well.
C12_FaultsThatEndProcess ==
    /\ EscapedCheck => pc = "exited"
    /\ pc = "exited" => ("Application error" \in log /\ ~ENABLED Next)
    /\ pc = "exited" => (EscapedCheck \/ BindFailed)

\* the output stops being JSON after a snapshot with pools was stored
C12_Witness ==
    /\ pc = "exited"
    /\ cycle = "raised"
    /\ Len(old_data.vdevs) = 2
    /\ "Application error" \in log

\* the snapshots the store can hold whole: the one of line 152, and what
\* check_status stores for a document check() gets through
CompleteSnapshots ==
    {[vdevs |-> <<>>]}
    \cup {stored(check_data[SHOW_SPACE][document]) :
              document \in Readable[SHOW_SPACE][POOLS]}

\* what one snapshot holds under the first n keys of a path that lead into it
RECURSIVE Resolved(_, _, _, _, _)
Resolved(kind, value, keys, j, n) ==
    IF j > n THEN [kind |-> kind, value |-> value]
    ELSE IF keys[j] = "" THEN Resolved(kind, value, keys, j + 1, n)
    ELSE Resolved(child_kind(kind, keys[j]),
                  IF kind \in {"pools", "groups"} THEN Get(value, keys[j])
                  ELSE value[keys[j]],
                  keys, j + 1, n)

\* C13: whatever the poll cycle does meanwhile, a request walks one complete
\* snapshot, the one that was stored when it bound its local: at every key
\* the value in hand is what that snapshot holds under the keys walked so far,
\* and the body of a 200 is what it holds under the whole path, also when the
\* store is replaced in the middle of the walk.
C13_RequestSeesOneSnapshot ==
    /\ [](req.pc = "walk" =>
            /\ req.root \in CompleteSnapshots
            /\ Resolved("snapshot", req.root, req.keys, 1, req.i - 1)
                  = [kind |-> req.kind, value |-> req.data])
    /\ [](response.status = 200 =>
            LET whole == Resolved("snapshot", req.root, req.keys, 1, Len(req.keys))
            IN response.body = json_dumps(whole.kind, whole.value))
    /\ [][(req.pc = "idle" /\ req'.pc = "walk") => req'.root = old_data]_vars
    /\ [][(req.pc = "walk" /\ req'.pc # "idle") => req'.root = req.root]_vars

\* a 200 for /vdevs/tank/online with the number of the snapshot bound at the
\* start, the store holding another number by then
C13_Witness ==
    /\ response.status = 200
    /\ req.path = "vdevs/tank/online"
    /\ req.root # old_data
    /\ Has(old_data.vdevs, "tank")
    /\ response.body = ToString(Get(req.root.vdevs, "tank").online)
    /\ response.body # ToString(Get(old_data.vdevs, "tank").online)

\* C14: once shutdown_event is set, the cycle in progress runs to its end,
\* delivery included, and main() then returns: a cycle that was in progress
\* at the signal never ends the process instead.
C14_ShutdownCompletesCycle ==
    (shutdown_event /\ cycle # "none") => pc # "exited"

\* C15: with the web server on, main() has called server.shutdown and
\* server.server_close once each and joined the thread by the time it returns.
C15_ServerStoppedOnReturn ==
    (pc = "returned" /\ server.state # "none")
        => (server.shutdown = 1 /\ server.server_close = 1 /\ server.join = 1)

\* the three-way rule of the severity
Severity(c) ==
    IF c.total > 0 /\ c.online + c.degraded = 0 THEN "OFFLINE"
    ELSE IF c.online = c.total THEN "ONLINE"
    ELSE "DEGRADED"

Glyph(severity) ==
    CASE severity = "OFFLINE" -> "\\[stop]"
      [] severity = "ONLINE" -> "\\[check]"
      [] severity = "DEGRADED" -> "\\[warn]"

Hue(severity) ==
    CASE severity = "OFFLINE" -> 16711680
      [] severity = "ONLINE" -> 65280
      [] severity = "DEGRADED" -> 16753920

\* check_status has composed the one message of a snapshot, not verbose
Rendered == ~VERBOSE /\ cycle = "notify" /\ Len(embeds) = 1

\* C16: the title's label, the color, the icon of every child's field and the
\* logged status are each the severity the three-way rule gives the counter
\* they render, so that title and color always denote the same severity.
C16_SeverityEverywhere ==
    Rendered =>
        /\ embeds[1].title = Glyph(Severity(data)) \o " " \o Severity(data)
        /\ embeds[1].color = Hue(Severity(data))
        /\ \A i \in DOMAIN data.vdevs :
              embeds[1].fields[i].name
                 = Glyph(Severity(data.vdevs[i].v)) \o " " \o data.vdevs[i].k
        /\ log = {"Status: " \o Severity(data)}

\* no device at all is ONLINE, and a child with every device degraded is
\* DEGRADED, not OFFLINE
C16_Witness ==
    /\ Rendered
    /\ data.total = 0
    /\ embeds[1].title = "\\[check] ONLINE"
    /\ embeds[1].color = 65280
    /\ data.vdevs[1].v = [total |-> 3, online |-> 0, degraded |-> 3]
    /\ embeds[1].fields[1].name = "\\[warn] tank"

\* the counters of a snapshot: its own, and those of its pools and of their
\* redundancy groups, logs, cache and spares
CounterOf(node) ==
    [total |-> node.total, online |-> node.online, degraded |-> node.degraded]

CountersOf(snapshot) ==
    {CounterOf(snapshot)}
    \cup {CounterOf(snapshot.vdevs[i].v) : i \in DOMAIN snapshot.vdevs}
    \cup UNION {{CounterOf(snapshot.vdevs[i].v.vdevs[j].v) :
                    j \in DOMAIN snapshot.vdevs[i].v.vdevs} :
                i \in DOMAIN snapshot.vdevs}

\* the states a device or a pool reports
DeviceStates ==
    {"ONLINE", "AVAIL", "DEGRADED", "INUSE", "FAULTED", "OFFLINE", "UNAVAIL",
     "REMOVED", "SUSPENDED"}

\* C17: a tally adds 1 to total, 1 to online for ONLINE and AVAIL, 1 to
\* degraded for DEGRADED and INUSE, and nothing else for any state; and every
\* counter of every snapshot of check() has non-negative fields with
\* online + degraded <= total.
C17_TallyAndCounterInvariant ==
    data # NoData =>
        \A c \in CountersOf(data) :
            /\ c.total >= 0 /\ c.online >= 0 /\ c.degraded >= 0
            /\ c.online + c.degraded <= c.total
            /\ \A state \in DeviceStates :
                  count_by_state(c, [state |-> state])
                     = [total |-> c.total + 1,
                        online |-> c.online
                                   + (IF state \in {"ONLINE", "AVAIL"} THEN 1 ELSE 0),
                        degraded |-> c.degraded
                                     + (IF state \in {"DEGRADED", "INUSE"} THEN 1 ELSE 0)]

\* a pool with an offline device, a spare in use counted as degraded, and a
\* log pair and a cache device counted as online
C17_Witness ==
    /\ cycle = "notify"
    /\ Has(data.vdevs, "tank")
    /\ Has(Get(data.vdevs, "tank").vdevs, "spares")
    /\ CounterOf(Get(Get(data.vdevs, "tank").vdevs, "spares"))
          = [total |-> 1, online |-> 0, degraded |-> 1]
    /\ CounterOf(Get(Get(data.vdevs, "tank").vdevs, "logs"))
          = [total |-> 2, online |-> 2, degraded |-> 0]
    /\ Get(data.vdevs, "tank").online + Get(data.vdevs, "tank").degraded
          < Get(data.vdevs, "tank").total

\* the document of the fixture pool
FixtureStatus ==
    [pools |-> <<Entry("tank", WithSpace(FixturePool("tank"), "tank", "1.5T", "4T"))>>]

\* check() has handed check_status the snapshot of the fixture
FixtureClassified ==
    /\ cycle \in {"same", "notify"}
    /\ data = classify(FixtureStatus, SHOW_SPACE)

\* C18 as stated: the pool counter of the fixture shows total = 6.
C18_FixtureTotalSix ==
    FixtureClassified => Get(data.vdevs, "tank").total = 6

\* C18, amended: the pool counter of the fixture shows total = 4, one for each
\* member of the redundancy group: the healthy, the degraded and the offline
\* device, and the spare wrapper, tallied by its own state; the devices under
\* the wrapper and the log, cache and spare-pool devices are not tallied into
\* the pool counter.
C18_FixtureTotalFour ==
    FixtureClassified =>
        /\ CounterOf(Get(data.vdevs, "tank"))
              = [total |-> 4, online |-> 1, degraded |-> 2]
        /\ Get(data.vdevs, "tank").total
              = Len(Get(FixtureStatus.pools, "tank").vdevs[1].v.vdevs[1].v.vdevs)
        /\ CounterOf(Get(Get(data.vdevs, "tank").vdevs, "raidz1-0"))
              = CounterOf(Get(data.vdevs, "tank"))

C18_Witness ==
    /\ FixtureClassified
    /\ cycle = "notify"
    /\ Get(data.vdevs, "tank").degraded_drives = <<"sdb", "sdd (replacing)">>
    /\ Get(data.vdevs, "tank").offline_drives = <<"sdc">>
    /\ Get(data.vdevs, "tank").total = 4

\* sub in text
Contains(text, sub) ==
    \E i \in 1..(Len(text) - Len(sub) + 1) : SubSeq(text, i, i + Len(sub) - 1) = sub

\* the text holds "(U unavailable)" exactly when the counter is not all
\* online, with U = total - online
ShowsUnavailable(text, c) ==
    /\ Contains(text, " unavailable)") <=> c.online # c.total
    /\ c.online # c.total
          => Contains(text, "(" \o ToString(c.total - c.online) \o " unavailable)")

\* C19: the description, and the value of every child's field, hold
\* "(U unavailable)" exactly when online # total, with U = total - online.
C19_UnavailableIsTotalMinusOnline ==
    Rendered =>
        /\ ShowsUnavailable(embeds[1].description, data)
        /\ \A i \in DOMAIN data.vdevs :
              ShowsUnavailable(embeds[1].fields[i].value, data.vdevs[i].v)

\* C20: with devices degraded and devices offline, the number shown as
\* unavailable is total - online - degraded.
C20_UnavailableIsOfflineCount ==
    (Rendered /\ data.degraded > 0 /\ data.online + data.degraded < data.total)
        => Contains(embeds[1].description,
                    "(" \o ToString(data.total - data.online - data.degraded)
                        \o " unavailable)")

\* ---- C21 ----
SpaceKeys(node) == DOMAIN node \cap {"alloc_space", "total_space"}

\* the check() of this cycle got a document that has every key check() subscripts
\* when space is not reported
SpaceCase == status_doc # NoStatus /\ ~raises_KeyError(status_doc, FALSE)

\* C21: for every document, the node of each pool carries alloc_space and
\* total_space, copied from the root vdev, when SHOW_SPACE is on and the root
\* vdev has both; in every other case - SHOW_SPACE off, or a root vdev with
\* none or one of the two - the node carries neither
C21_SpaceFieldsTogether ==
    SpaceCase =>
        /\ cycle # "raised"
        /\ Keys(data.vdevs) = Keys(status_doc.pools)
        /\ \A i \in DOMAIN status_doc.pools :
              LET pool_name == status_doc.pools[i].k
                  top == Get(status_doc.pools[i].v.vdevs, pool_name)
                  node == Get(data.vdevs, pool_name)
              IN IF SHOW_SPACE /\ {"alloc_space", "total_space"} \subseteq DOMAIN top
                 THEN /\ SpaceKeys(node) = {"alloc_space", "total_space"}
                      /\ node.alloc_space = top.alloc_space
                      /\ node.total_space = top.total_space
                 ELSE SpaceKeys(node) = {}

\* ---- C22 ----
\* whether the non-empty keys from the j-th on are successive keys of nested
\* dicts, starting in the value given
RECURSIVE Resolvable(_, _, _, _)
Resolvable(kind, value, keys, j) ==
    IF j > Len(keys) THEN TRUE
    ELSE IF keys[j] = "" THEN Resolvable(kind, value, keys, j + 1)
    ELSE IF kind \in {"pools", "groups"}
    THEN IF Has(value, keys[j])
         THEN Resolvable(child_kind(kind, keys[j]), Get(value, keys[j]), keys, j + 1)
         ELSE FALSE
    ELSE IF kind \in {"snapshot", "pool", "group"}
    THEN IF keys[j] \in DOMAIN value
         THEN Resolvable(child_kind(kind, keys[j]), value[keys[j]], keys, j + 1)
         ELSE FALSE
    ELSE FALSE

\* a send_response, end_headers or wfile.write of the request raised
SendRaised == IF "exc" \in DOMAIN response THEN response.exc = "OSError" ELSE FALSE

\* do_GET is through with the request, and no send raised
Answered == req.pc = "sent" /\ ~SendRaised

\* C22: a request whose path leads through nested dicts of the snapshot bound
\* gets 200, Content-type application/json and the JSON text of the value at
\* the path - the text of that value and of no other value a snapshot can hold
\* there; the empty path gets the whole snapshot.
C22_ProjectionRoundTrip ==
    (Answered /\ req.path # "_ping" /\ Resolvable("snapshot", req.root, req.keys, 1)) =>
        LET n == Len(req.keys)
            whole == Resolved("snapshot", req.root, req.keys, 1, n)
        IN /\ response.status = 200
           /\ response.content_type = "application/json"
           /\ response.body = json_dumps(whole.kind, whole.value)
           /\ req.path = "" => whole.value = req.root
           /\ \A other \in CompleteSnapshots :
                 Resolvable("snapshot", other, req.keys, 1) =>
                    LET there == Resolved("snapshot", other, req.keys, 1, n)
                    IN json_dumps(there.kind, there.value) = response.body
                          => there.value = whole.value

\* the groups of a pool with one drive faulted, asked for with empty segments
C22_Witness ==
    /\ response.status = 200
    /\ req.raw = "//vdevs//tank/vdevs/"
    /\ response.body = "{\"mirror-0\": {\"total\": 2, \"online\": 1, \"degraded\": 0}}"

\* ---- C23 ----
\* the place in keys of the first non-empty key, from the j-th on, that the
\* dict reached does not have; 0 when the walk ends, or leaves the dicts, first
RECURSIVE MissingAt(_, _, _, _)
MissingAt(kind, value, keys, j) ==
    IF j > Len(keys) THEN 0
    ELSE IF keys[j] = "" THEN MissingAt(kind, value, keys, j + 1)
    ELSE IF kind \in {"pools", "groups"}
    THEN IF Has(value, keys[j])
         THEN MissingAt(child_kind(kind, keys[j]), Get(value, keys[j]), keys, j + 1)
         ELSE j
    ELSE IF kind \in {"snapshot", "pool", "group"}
    THEN IF keys[j] \in DOMAIN value
         THEN MissingAt(child_kind(kind, keys[j]), value[keys[j]], keys, j + 1)
         ELSE j
    ELSE 0

\* C23: when a segment of the path is not a key of the dict the walk has
\* reached, the answer is 404 and nothing else - no header, no body - and the
\* walk has stopped at that segment: no later segment was looked at.
C23_MissingKeyIs404 ==
    (Answered /\ req.path # "_ping"
              /\ MissingAt("snapshot", req.root, req.keys, 1) # 0) =>
        /\ response = [status |-> 404]
        /\ req.i = MissingAt("snapshot", req.root, req.keys, 1)

\* /nope, asked of a snapshot with a pool in it
C23_Witness ==
    /\ req.pc = "sent"
    /\ req.raw = "/nope"
    /\ response = [status |-> 404]
    /\ Has(req.root.vdevs, "tank")

\* ---- C24 ----
\* the place in keys of the first non-empty key, from the j-th on, that is
\* met with an int, a str or a list in hand; 0 when there is none
RECURSIVE LeavesDictsAt(_, _, _, _)
LeavesDictsAt(kind, value, keys, j) ==
    IF j > Len(keys) THEN 0
    ELSE IF keys[j] = "" THEN LeavesDictsAt(kind, value, keys, j + 1)
    ELSE IF kind \in {"pools", "groups"}
    THEN IF Has(value, keys[j])
         THEN LeavesDictsAt(child_kind(kind, keys[j]), Get(value, keys[j]), keys, j + 1)
         ELSE 0
    ELSE IF kind \in {"snapshot", "pool", "group"}
    THEN IF keys[j] \in DOMAIN value
         THEN LeavesDictsAt(child_kind(kind, keys[j]), value[keys[j]], keys, j + 1)
         ELSE 0
    ELSE j

\* C24: when the walk has an int, a str or a list in hand and a segment is
\* left, the answer is 404, as for a missing key, and never 500.
C24_NonDictIs404 ==
    (Answered /\ req.path # "_ping"
              /\ LeavesDictsAt("snapshot", req.root, req.keys, 1) # 0) =>
        response = [status |-> 404]

\* ---- C25 ----
\* C25: GET /_ping, with a query string or without, is answered 204 and
\* nothing else whatever the stored snapshot is; the handler binds no local to
\* the snapshot on the way and the step leaves the store as it was.
C25_PingIs204 ==
    /\ []((Answered /\ req.raw \in {"/_ping", "/_ping?x=1"}) =>
             /\ response = [status |-> 204]
             /\ DOMAIN req = {"pc", "raw", "path"})
    /\ [][(req.pc = "idle" /\ req'.pc = "sent") =>
             /\ req'.path = "_ping"
             /\ old_data' = old_data]_vars

\* a ping with a query string, answered while the store holds a pool
C25_Witness ==
    /\ req.pc = "sent"
    /\ req.raw = "/_ping?x=1"
    /\ response = [status |-> 204]
    /\ Has(old_data.vdevs, "tank")

\* ---- C26 ----
\* the state of main() and of the poll loop
poll == <<config, old_data, shutdown_event, pc, data, cycle, embeds, attempt, posts,
          sleeps, last, log, command, status_doc, undelivered, server>>

\* C26: an exception raised while a GET is handled - by the walk or by a send -
\* stays in do_GET: it is logged as 'Web error', a 500 is tried, and whether
\* that 500 is sent or raises too, do_GET comes to its end; no step of the
\* handler changes anything of the poll loop, and once do_GET has returned
\* the next request is taken.
C26_HandlerContainsExceptions ==
    /\ [](req.pc \in {"idle", "walk", "sent"})
    /\ []("exc" \in DOMAIN response =>
             /\ req.pc = "sent"
             /\ "logged" \in DOMAIN response
             /\ response.logged = "Web error"
             /\ response.status \in {500, 0})
    /\ []((req.pc = "sent" /\ pc \notin {"returned", "exited"}) => ENABLED do_GET_returns)
    /\ []((req.pc = "idle" /\ server.state = "serving" /\ pc \notin {"returned", "exited"})
             => ENABLED do_GET_begins)
    /\ [][req' # req => UNCHANGED poll]_vars

\* a TypeError of the walk whose 500 could not be sent either, in the middle
\* of a delivery of the poll loop
C26_Witness ==
    /\ req.pc = "sent"
    /\ response = [status |-> 0, logged |-> "Web error", exc |-> "TypeError"]
    /\ pc = "post"
    /\ posts = 1

\* ---- C27 ----
\* the pool names of a POOLS value, which separates them by spaces
PoolNameList(pools) == IF pools = "" THEN <<>> ELSE split(pools, " ", 1, 1)

\* C27: every call of the status command passes an argument vector: 'zpool',
\* 'status', '-j', then each pool name of POOLS as an argument of its own -
\* three elements when POOLS is empty.
C27_CommandIsArgumentVector ==
    (command # NoCommand) =>
        IF command.args.type = "list"
        THEN command.args.value = <<"zpool", "status", "-j">> \o PoolNameList(POOLS)
        ELSE FALSE

\* ---- C28 ----
\* the characters the claim allows in POOLS
NameChars == Lower \cup Upper \cup Digits \cup {"_", ".", ":", ",", "-"} \cup Spaces

ReservedWords == {"log", "mirror", "raidz", "spare"}

\* the names of a POOLS value: its runs of characters between white space and
\* commas
RECURSIVE Names(_, _, _)
Names(s, from, i) ==
    IF i > Len(s) THEN (IF from > Len(s) THEN {} ELSE {SubSeq(s, from, Len(s))})
    ELSE IF SubSeq(s, i, i) \in Spaces \cup {","}
    THEN (IF from = i THEN {} ELSE {SubSeq(s, from, i - 1)}) \cup Names(s, i + 1, i + 1)
    ELSE Names(s, from, i + 1)

Unacceptable(value) ==
    \/ \E i \in 1..Len(value) : SubSeq(value, i, i) \notin NameChars
    \/ Names(value, 1, 1) \cap ReservedWords # {}

\* C28: a value of POOLS with a character outside letters, digits, '_', '.',
\* ':', ',', '-' and white space, or with a reserved word (log, mirror, raidz,
\* spare) among its names, is rejected when the module is loaded: main() is
\* never entered and the status command is never run with it.
C28_BadPoolsRejectedAtLoad ==
    Unacceptable(environ) =>
        /\ pc \in {"load", "load_failed"}
        /\ command = NoCommand
        /\ ~ENABLED (main_starts \/ loop_enters \/ check_command_fails
                        \/ check_classifies)

\* the value of test_pools_rejects_invalid_characters, rejected
C28_Witness ==
    /\ environ = "tank; rm -rf /"
    /\ pc = "load_failed"

\* ---- C29 ----
\* C29: the first check_status call of the process always notifies: the
\* store of line 152 is unequal to whatever check() hands over, the snapshot
\* of a host without pools included, so the call composes a payload and goes
\* to the delivery loop; and with DISCORD_MAX_RETRIES >= 1 a cycle that
\* notifies makes at least one requests.post before it ends.
C29_FirstCycleNotifies ==
    /\ [][(CheckStatusCalled /\ data = NoData) =>
             /\ old_data = [vdevs |-> <<>>]
             /\ cycle' = "notify"
             /\ pc' = "post"
             /\ attempt' = 0
             /\ old_data' = data']_vars
    /\ []((cycle = "notify" /\ DISCORD_MAX_RETRIES >= 1 /\ posts = 0) =>
             /\ pc = "post"
             /\ attempt = 0
             /\ ENABLED post_responds
             /\ ~ENABLED retries_exhausted)

\* the first cycle on a host without pools: one post was made, the store
\* holds the counters of no pools
C29_Witness ==
    /\ cycle = "notify"
    /\ posts = 1
    /\ DISCORD_MAX_RETRIES = 1
    /\ data = [total |-> 0, online |-> 0, degraded |-> 0, vdevs |-> <<>>]
    /\ old_data = data
    /\ ~undelivered
    /\ pc = "wait"

\* ---- C30 ----
\* C30: a change is notified in one cycle at most. requests.post is called
\* only in a cycle whose snapshot differs from the stored one; that cycle
\* stores the snapshot before the first post and the delivery loop leaves the
\* store alone, whatever the posts come to; so when every attempt failed, a
\* later cycle whose snapshot equals the stored one posts nothing and the
\* notification stays undelivered.
C30_ChangeNotifiedOnce ==
    /\ [](posts > 0 => cycle = "notify")
    /\ [][CheckStatusCalled =>
             /\ cycle' = "notify" <=> ~snapshot_eq(old_data, data')
             /\ snapshot_eq(old_data', data')]_vars
    /\ [][(cycle = "notify" /\ pc \in {"post", "sleep"}) => old_data' = old_data]_vars
    /\ [][(CheckStatusCalled /\ undelivered /\ snapshot_eq(old_data, data')) =>
             /\ pc' = "wait"
             /\ posts' = 0
             /\ embeds' = <<>>
             /\ undelivered']_vars

\* a cycle that found the snapshot of a pool unchanged and posted nothing,
\* the notification of that snapshot having failed at every attempt
C30_Witness ==
    /\ cycle = "same"
    /\ pc = "wait"
    /\ undelivered
    /\ posts = 0
    /\ DISCORD_MAX_RETRIES >= 1
    /\ Len(old_data.vdevs) >= 1
    /\ snapshot_eq(old_data, data)

\* ---- C31 ----
\* C31: in a cycle that notifies, the store is replaced before the first
\* requests.post: the step of check_status that finds a change leaves the
\* store equal to its argument with no post made yet; the store stays so
\* through every attempt and sleep and after the delivery ended, failed or
\* raised; and a request that binds its local while the delivery is pending
\* or retrying walks the new snapshot.
C31_StoreReplacedBeforeDelivery ==
    /\ [][(CheckStatusCalled /\ cycle' = "notify") =>
             /\ ~snapshot_eq(old_data, data')
             /\ snapshot_eq(old_data', data')
             /\ posts' = 0
             /\ attempt' = 0]_vars
    /\ [](cycle = "notify" => snapshot_eq(old_data, data))
    /\ [][(req.pc = "idle" /\ req'.pc = "walk" /\ cycle = "notify"
              /\ pc \in {"post", "sleep"}) =>
             snapshot_eq(req'.root, data)]_vars

\* a 200 with the online count of the faulted pool, asked for after the first
\* post was answered 400 and before the second, the store holding the count
\* of the healthy pool until this cycle
C31_Witness ==
    /\ cycle = "notify"
    /\ pc = "post"
    /\ attempt = 1
    /\ posts = 1
    /\ last = [kind |-> "response", status_code |-> 400]
    /\ response.status = 200
    /\ req.path = "vdevs/tank/online"
    /\ snapshot_eq(req.root, data)
    /\ response.body = "1"

\* ---- C32 ----
\* C32: only the poll cycle writes the store. A step of do_GET - one that
\* changes the request in hand or its response - leaves old_data as it is,
\* whatever the path and whatever is answered; old_data changes only in the
\* step of check() that calls check_status and finds a change, and that step
\* starts the record of its cycle, so that a cycle has one such step at most.
C32_PollCycleSoleWriter ==
    /\ [][(req' # req \/ response' # response) => old_data' = old_data]_vars
    /\ [][old_data' # old_data =>
             /\ CheckStatusCalled
             /\ cycle = "none"
             /\ cycle' = "notify"
             /\ req' = req
             /\ response' = response]_vars
    /\ [][cycle # "none" => old_data' = old_data]_vars
    /\ [](response.status \in {0, 200, 204, 404, 500})

\* a 500 for /total/x, the store being the snapshot the request had bound
C32_Witness ==
    /\ req.pc = "sent"
    /\ req.raw = "/total/x"
    /\ response.status = 500
    /\ req.root = old_data
    /\ Has(old_data.vdevs, "tank")
    /\ cycle = "none"

\* ---- C33 ----
\* the group nodes of a pool node: its children but logs, cache and spares
GroupNodes(node) ==
    SelectSeq(node.vdevs, LAMBDA e : e.k \notin {"logs", "cache", "spares"})

RECURSIVE SumOf(_, _)
SumOf(nodes, field) ==
    IF nodes = <<>> THEN 0 ELSE nodes[1].v[field] + SumOf(Tail(nodes), field)

\* how many of the devices listed have one of the states
Tally(drives, states) ==
    Cardinality({i \in DOMAIN drives : drives[i].v.state \in states})

\* check() has built the snapshot of the document in hand
Classified == status_doc # NoStatus /\ cycle \in {"same", "notify"}

\* C33: the node of every redundancy group counts the devices the group lists,
\* each once and by its own state, and the pool node counts the devices of
\* all its groups and nothing else: each of total, online and degraded of the
\* pool is the sum of that field over the group nodes, the logs, cache and
\* spares nodes left out.
C33_PoolCounterSumsGroups ==
    Classified =>
        \A i \in DOMAIN status_doc.pools :
            LET pool_name == status_doc.pools[i].k
                groups == Get(status_doc.pools[i].v.vdevs, pool_name).vdevs
                node == Get(data.vdevs, pool_name)
            IN /\ Keys(GroupNodes(node)) = Keys(groups)
               /\ \A g \in DOMAIN groups :
                     CounterOf(Get(node.vdevs, groups[g].k))
                        = [total |-> Len(groups[g].v.vdevs),
                           online |-> Tally(groups[g].v.vdevs, {"ONLINE", "AVAIL"}),
                           degraded |-> Tally(groups[g].v.vdevs, {"DEGRADED", "INUSE"})]
               /\ \A field \in {"total", "online", "degraded"} :
                     node[field] = SumOf(GroupNodes(node), field)

\* two groups: a spare wrapper over a replacing wrapper beside a disk that
\* reports AVAIL, and a degraded disk beside a faulted one
C33_Witness ==
    /\ Classified
    /\ Has(data.vdevs, "tank")
    /\ Len(Get(data.vdevs, "tank").vdevs) = 2
    /\ CounterOf(Get(Get(data.vdevs, "tank").vdevs, "mirror-0"))
          = [total |-> 2, online |-> 1, degraded |-> 1]
    /\ CounterOf(Get(Get(data.vdevs, "tank").vdevs, "mirror-1"))
          = [total |-> 2, online |-> 0, degraded |-> 1]
    /\ CounterOf(Get(data.vdevs, "tank")) = [total |-> 4, online |-> 1, degraded |-> 2]
    /\ Get(data.vdevs, "tank").degraded_drives = <<"d01-old (replacing)", "d11">>

\* ---- C34 ----
\* C34: the root counter counts the pools, each once and by the state the
\* pool itself reports: total is the number of pools, online the number of
\* pools that report ONLINE or AVAIL, degraded the number that report
\* DEGRADED or INUSE, whatever their devices report.
C34_RootCountsPools ==
    Classified =>
        CounterOf(data)
           = [total |-> Len(status_doc.pools),
              online |-> Tally(status_doc.pools, {"ONLINE", "AVAIL"}),
              degraded |-> Tally(status_doc.pools, {"DEGRADED", "INUSE"})]

\* a pool that reports ONLINE over a faulted device and a pool that reports
\* SUSPENDED over online devices: one pool of two online, none degraded
C34_Witness ==
    /\ Classified
    /\ Keys(status_doc.pools) = {"tank", "backup"}
    /\ Get(status_doc.pools, "tank").state = "ONLINE"
    /\ Get(data.vdevs, "tank").online < Get(data.vdevs, "tank").total
    /\ Get(status_doc.pools, "backup").state = "SUSPENDED"
    /\ Get(data.vdevs, "backup").online = Get(data.vdevs, "backup").total
    /\ CounterOf(data) = [total |-> 2, online |-> 1, degraded |-> 0]

\* ---- C35 ----
\* how often a list holds the name
Occurrences(names, name) == Cardinality({i \in DOMAIN names : names[i] = name})

\* the devices the groups of a pool list that are not spare wrappers
\* (entries of the document)
PlainMembers(pool_name, pool) ==
    UNION {{group.v.vdevs[p] : p \in {p \in DOMAIN group.v.vdevs :
                                        group.v.vdevs[p].v.vdev_type # "spare"}} :
             group \in {Get(pool.vdevs, pool_name).vdevs[g] :
                           g \in DOMAIN Get(pool.vdevs, pool_name).vdevs}}

\* C35: a device that a redundancy group lists and that is not a spare wrapper
\* is in the pool's degraded_drives, once and under its own name, exactly when
\* it reports DEGRADED; in offline_drives, once and under its own name,
\* exactly when it reports a state other than ONLINE, AVAIL and DEGRADED; and
\* in neither list when it reports ONLINE or AVAIL.
C35_DrivesListedByState ==
    Classified =>
        \A i \in DOMAIN status_doc.pools :
            LET pool_name == status_doc.pools[i].k
                node == Get(data.vdevs, pool_name)
            IN \A drive \in PlainMembers(pool_name, status_doc.pools[i].v) :
                  /\ Occurrences(node.degraded_drives, drive.k)
                        = (IF drive.v.state = "DEGRADED" THEN 1 ELSE 0)
                  /\ Occurrences(node.offline_drives, drive.k)
                        = (IF drive.v.state \in {"ONLINE", "AVAIL", "DEGRADED"}
                           THEN 0 ELSE 1)

\* ---- C36 ----
Suffixed(name) == name \o " (replacing)"

EndsWith(text, end) ==
    /\ Len(text) >= Len(end)
    /\ SubSeq(text, Len(text) - Len(end) + 1, Len(text)) = end

\* the entries of a dict of the document, as a set
Entries(d) == {d[i] : i \in DOMAIN d}

\* the spare wrappers the groups of a pool list (entries of the document)
SpareWrappers(pool_name, pool) ==
    UNION {{drive \in Entries(group.v.vdevs) : drive.v.vdev_type = "spare"} :
             group \in Entries(Get(pool.vdevs, pool_name).vdevs)}

\* the children of the replacing wrappers under a spare wrapper
Replaced(wrapper) ==
    UNION {Entries(sub.v.vdevs) :
             sub \in {s \in Entries(wrapper.v.vdevs) : s.v.vdev_type = "replacing"}}

\* a name is listed as degraded exactly for DEGRADED and as offline exactly
\* for a state that is neither ONLINE nor DEGRADED, once
ListedByState(node, name, state) ==
    /\ Occurrences(node.degraded_drives, name) = (IF state = "DEGRADED" THEN 1 ELSE 0)
    /\ Occurrences(node.offline_drives, name)
          = (IF state \in {"ONLINE", "DEGRADED"} THEN 0 ELSE 1)

Unlisted(node, name) ==
    /\ Occurrences(node.degraded_drives, name) = 0
    /\ Occurrences(node.offline_drives, name) = 0

\* C36: under a spare wrapper that a group lists, a child of a replacing
\* wrapper is listed with the suffix " (replacing)" - in degraded_drives when
\* DEGRADED, in offline_drives when in another state that is not ONLINE, not
\* at all when ONLINE - and never without the suffix; a child of the spare
\* wrapper that is neither a replacing wrapper nor of class spare is listed
\* the same way under its own name and never with the suffix; the spare
\* wrapper and the replacing wrappers in it are listed in no form; and every
\* name in the two lists that ends in the suffix is one of such a replaced
\* device that is not ONLINE.
C36_ReplacingSuffix ==
    Classified =>
        \A i \in DOMAIN status_doc.pools :
            LET pool_name == status_doc.pools[i].k
                node == Get(data.vdevs, pool_name)
                wrappers == SpareWrappers(pool_name, status_doc.pools[i].v)
            IN /\ \A wrapper \in wrappers :
                     /\ Unlisted(node, wrapper.k)
                     /\ Unlisted(node, Suffixed(wrapper.k))
                     /\ \A rpl \in Replaced(wrapper) :
                           /\ ListedByState(node, Suffixed(rpl.k), rpl.v.state)
                           /\ Unlisted(node, rpl.k)
                     /\ \A sub \in Entries(wrapper.v.vdevs) :
                           IF sub.v.vdev_type = "replacing"
                           THEN Unlisted(node, sub.k) /\ Unlisted(node, Suffixed(sub.k))
                           ELSE /\ Unlisted(node, Suffixed(sub.k))
                                /\ sub.v.class # "spare" =>
                                      ListedByState(node, sub.k, sub.v.state)
               /\ \A name \in Entries(node.degraded_drives)
                                 \cup Entries(node.offline_drives) :
                     EndsWith(name, " (replacing)") =>
                        \E wrapper \in wrappers : \E rpl \in Replaced(wrapper) :
                           name = Suffixed(rpl.k) /\ rpl.v.state # "ONLINE"

\* a spare wrapper over a replacing wrapper whose old device is degraded, and
\* a spare wrapper over a faulted disk
C36_Witness ==
    /\ Classified
    /\ Has(data.vdevs, "tank")
    /\ Get(data.vdevs, "tank").degraded_drives = <<"d01-old (replacing)">>
    /\ Get(data.vdevs, "tank").offline_drives = <<"d02-d">>
    /\ CounterOf(Get(data.vdevs, "tank")) = [total |-> 2, online |-> 0, degraded |-> 2]

\* ---- C37 ----
\* the counter of the devices given (entries of the document, as a set)
CountOf(devices) ==
    [total |-> Cardinality(devices),
     online |-> Cardinality({d \in devices : d.v.state \in {"ONLINE", "AVAIL"}}),
     degraded |-> Cardinality({d \in devices : d.v.state \in {"DEGRADED", "INUSE"}})]

\* the devices tallied for a pool's logs: an entry that is a disk, the
\* children of an entry that is not
LogDevices(logs) ==
    UNION {IF entry.v.vdev_type # "disk" THEN Entries(entry.v.vdevs) ELSE {entry} :
             entry \in Entries(logs)}

Segments(path) ==
    LET pieces == split(path, "/", 1, 1)
        named(piece) == piece # ""
    IN SelectSeq(pieces, named)

\* what a walk of the snapshot along segments, none of them empty, is answered
\* with when no send raises
Walked(root, segments) ==
    IF Resolvable("snapshot", root, segments, 1)
    THEN LET whole == Resolved("snapshot", root, segments, 1, Len(segments))
         IN {[status |-> 200, content_type |-> "application/json",
              body |-> json_dumps(whole.kind, whole.value)]}
    ELSE IF MissingAt("snapshot", root, segments, 1) # 0
    THEN {[status |-> 404]}
    ELSE LET j == LeavesDictsAt("snapshot", root, segments, 1)
             at == Resolved("snapshot", root, segments, 1, j - 1)
         IN IF membership(at.kind, at.value, segments[j]) = "not in"
            THEN {[status |-> 404]}
            ELSE handled("TypeError")

\* the answer to the path made of the segments alone, a slash before each
WithoutAddedSlashes(request) ==
    IF Segments(request.path) = <<"_ping">> THEN {[status |-> 204]}
    ELSE Walked(request.root, Segments(request.path))

\* C38 as it is stated: whatever the path, the answer is the answer to the path
\* without its added slashes. It does not hold of the reserved path.
C38_SlashesNeverMatter ==
    Answered => response \in WithoutAddedSlashes(req)

\* C38: for every snapshot bound and every path but the reserved one, the
\* status and the body are those of the path without its leading, repeated and
\* trailing slashes; the reserved path is compared whole, so that _ping with a
\* slash added is walked as a key, which no snapshot has, and answered 404.
C38_SlashesIgnoredInTheWalk ==
    Answered =>
        IF Segments(req.path) = <<"_ping">>
        THEN response = [status |-> IF req.path = "_ping" THEN 204 ELSE 404]
        ELSE response \in Walked(req.root, Segments(req.path))

\* the counter of a pool's drives online, asked for with a slash repeated and
\* a slash at the end
C38_Witness ==
    /\ Answered
    /\ req.raw = "/vdevs/tank//online/"
    /\ response.status = 200
    /\ response.body = "1"

\* ---- C39 ----
\* the node the i-th message of a first notification was rendered from: the
\* snapshot, or with VERBOSE the i-th pool, each pool being new to the store
RenderedFrom(i) == IF VERBOSE THEN data.vdevs[i].v ELSE data

\* whether the node has a list under the key, and a name in it
Lists(node, key) == IF key \in DOMAIN node THEN node[key] # <<>> ELSE FALSE

\* how many of the fields have the name
Named(fields, name) == Cardinality({j \in DOMAIN fields : fields[j].name = name})

\* C39: the fields of a rendered message are one field per child, in the order
\* of the child mapping, then a Degraded field iff degraded_drives is there and
\* not empty, then an Offline field iff offline_drives is there and not empty,
\* then one Timestamp field, the last, and there is no other field.
C39_FieldOrder ==
    cycle = "notify" =>
        /\ Len(embeds) = (IF VERBOSE THEN Len(data.vdevs) ELSE 1)
        /\ \A i \in DOMAIN embeds :
              LET node == RenderedFrom(i)
                  fields == embeds[i].fields
                  n == Len(node.vdevs)
                  d == IF Lists(node, "degraded_drives") THEN 1 ELSE 0
                  o == IF Lists(node, "offline_drives") THEN 1 ELSE 0
              IN /\ Len(fields) = n + d + o + 1
                 /\ \A j \in 1..n :
                       /\ fields[j].name
                             = vdev_icon(node.vdevs[j].v) \o " " \o node.vdevs[j].k
                       /\ fields[j].inline
                 /\ d = 1 => /\ fields[n + 1].name = "\\[warn] Degraded"
                             /\ fields[n + 1].value
                                   = "'''" \o join(node.degraded_drives) \o "'''"
                 /\ o = 1 => /\ fields[n + d + 1].name = "\\[stop] Offline"
                             /\ fields[n + d + 1].value
                                   = "'''" \o join(node.offline_drives) \o "'''"
                 /\ fields[Len(fields)].name = "Timestamp"
                 /\ Named(fields, "\\[warn] Degraded") = d
                 /\ Named(fields, "\\[stop] Offline") = o
                 /\ Named(fields, "Timestamp") = 1

\* the message of a pool of two groups with a drive degraded and a drive
\* faulted: two child fields, Degraded, Offline, Timestamp
C39_Witness ==
    /\ VERBOSE
    /\ cycle = "notify"
    /\ Len(embeds) = 1
    /\ Len(data.vdevs[1].v.vdevs) = 2
    /\ data.vdevs[1].v.degraded_drives # <<>>
    /\ data.vdevs[1].v.offline_drives # <<>>
    /\ Len(embeds[1].fields) = 5
    /\ embeds[1].fields[3].name = "\\[warn] Degraded"
    /\ embeds[1].fields[4].name = "\\[stop] Offline"
    /\ embeds[1].fields[5].name = "Timestamp"

\* ---- C40 ----
\* C40: get_embed, given a node with total, online and degraded and no vdevs
\* key, returns a message with title, description, color and fields, no field
\* of them for a child. The code raises KeyError at line 114 instead.
C40_NoVdevsKeyRendered ==
    (cycle # "none" /\ "vdevs" \notin DOMAIN data) =>
        /\ cycle = "rendered"
        /\ Len(embeds) = 1
        /\ {"title", "description", "color", "fields"} \subseteq DOMAIN embeds[1]
        /\ \A j \in DOMAIN embeds[1].fields : ~embeds[1].fields[j].inline

====
